---- MODULE Spec2Model ----
(***************************************************************************)
(* A model of packages/core/src/SpringValue.ts (react-spring): one         *)
(* SpringValue, its Animation record, its RunAsyncState, the updates that  *)
(* were submitted to it, and the frame loop that advances it.              *)
(*                                                                         *)
(* The JavaScript program is single threaded.  Every action below is one   *)
(* macrotask (a public call, an expired timer, a frame) run to completion, *)
(* followed by the promise jobs (the `.then` callbacks of `_update`) it    *)
(* made runnable.  Methods are operators from a world record to a world    *)
(* record, so that nested calls are composed exactly as the code nests     *)
(* them.                                                                   *)
(*                                                                         *)
(* Positions are integers counted in 1/Unit of the program's unit, and     *)
(* times are integers in milliseconds.  A frame is only taken with a `dt`  *)
(* for which the program's floating point results are such integers        *)
(* (AdvanceExact), so no rounding is modelled.                             *)
(***************************************************************************)
EXTENDS Integers, Sequences, FiniteSets, TLC

(* ------------------------------ bounds -------------------------------- *)

\* The number of `_update` calls (callIds) one behaviour may make.
MaxCalls == 3

\* The number of `set` calls one behaviour may make.
MaxSets == 1

\* The elapsed time of a node, in ms, is at most MaxElapsed.
MaxElapsed == 8

RECURSIVE Pow2(_)
Pow2(n) == IF n = 0 THEN 1 ELSE 2 * Pow2(n - 1)

\* One program unit of position.  Every restart of a duration animation can
\* halve the distance once more, and a restart needs a call.
Unit == Pow2(MaxCalls + 1)

\* The frame lengths (ms) the frame loop may pass to `advance`.
DtSet == {1, 2}

(* ------------------------------ values -------------------------------- *)

\* `undefined`, a number, an array of numbers.
Und == [t |-> "und", v |-> <<>>]
Num(n) == [t |-> "num", v |-> <<n>>]
Arr(s) == [t |-> "arr", v |-> s]

IsUnd(x) == x.t = "und"

\* A parent: another animated value that is the `to` of this one.  `pt` is
\* the type of its node, `v` the positions of its payload and `done` the
\* `done` flags of its payload.
Parent(pt, v, done) == [t |-> "parent", pt |-> pt, v |-> v, done |-> done]

IsParent(x) == x.t = "parent"

\* fluids: getFluidValue, the current value of a parent, or the value.
getFluidValue(x) == IF IsParent(x) THEN [t |-> x.pt, v |-> x.v] ELSE x

\* An optional number: `null`/`undefined` or a number.
None == <<>>
Some(x) == <<x>>

\* Number.NaN as a position or a velocity: a number no channel reaches.
NaN == -(1000 * Unit)

Abs(x) == IF x < 0 THEN -x ELSE x
Min(a, b) == IF a < b THEN a ELSE b

\* shared: isEqual, a deep comparison of numbers and arrays.
isEqual(a, b) == a = b

\* helpers: computeGoal, the value an animation to `value` ends at.
\* Animated strings are not modelled; numbers and arrays of numbers are
\* their own goal, and the goal of a parent is its current value.
computeGoal(value) == getFluidValue(value)

\* shared: toArray.
toArray(value) == value.v

\* animated: getAnimatedType, the node type of a value.
getAnimatedType(value) == value.t

\* animated: the payload of a node created for `value`.
NewNode(p) == [lastPosition |-> p, lastVelocity |-> None, elapsedTime |-> 0,
               v0 |-> None, done |-> TRUE]

CreatePayload(value) == [i \in 1..Len(value.v) |-> NewNode(value.v[i])]

(* ------------------------------ configs ------------------------------- *)

\* AnimationConfig: the fields `advance` and `_merge` read.  `duration`,
\* `bounce`, `precision` and `restVelocity` are optional.  `precision` and
\* `restVelocity` are given in 1/10000 of a program unit.
DefaultConfig ==
    [tension |-> 170, friction |-> 26, mass |-> 1, velocity |-> 0,
     duration |-> None, decay |-> FALSE, clamp |-> FALSE, bounce |-> None,
     precision |-> None, restVelocity |-> None]

\* The configs an update may carry, by name.
ConfigOf(name) ==
    CASE name = "dur2"  -> [DefaultConfig EXCEPT !.duration = Some(2)]
      [] name = "dur0"  -> [DefaultConfig EXCEPT !.duration = Some(0)]
      [] name = "stiff" -> [DefaultConfig EXCEPT !.tension = 1000000,
                                                 !.friction = 1000]
      [] name = "loose" -> [DefaultConfig EXCEPT !.tension = 0]
      [] name = "decay" -> [DefaultConfig EXCEPT !.decay = TRUE]
      [] name = "rigid" -> [DefaultConfig EXCEPT !.tension = 2000000,
                                                 !.friction = 1000]
      [] name = "kick"  -> [DefaultConfig EXCEPT !.tension = 1000000,
                                                 !.friction = 1000,
                                                 !.velocity = Unit]
      [] OTHER          -> DefaultConfig

(* ------------------------------ updates ------------------------------- *)

\* A SpringUpdate.  Three-valued props are "und", "true" or "false"; `loop`
\* is "und", "true" or "fn" (a predicate); `delay` is 0 or positive;
\* `config` is "und" or the name of a config; a handler prop is TRUE when
\* the update defines it.
NoProps ==
    [to |-> Und, from |-> Und, delay |-> 0, pause |-> "und",
     cancel |-> FALSE, reset |-> "und", immediate |-> FALSE,
     loop |-> "und", default |-> FALSE, reverse |-> FALSE,
     config |-> "und", onRest |-> FALSE, onStart |-> FALSE,
     onChange |-> FALSE, onPause |-> FALSE, onResume |-> FALSE]

(* ------------------------------- state -------------------------------- *)

\* spring:    the SpringValue: its Animated node, its Animation record, its
\*            default props, its counters and its SpringPhase bits.
\* state:     the RunAsyncState `_state`.
\* calls:     per callId, the update that `_update` scheduled under it and
\*            the promise `scheduleProps` returned for it.
\* frameLoop: whether the frame loop holds the spring.
\* events:    the handler calls, resolutions and errors of the last action,
\*            in order.
\* hist:      history: per callId, how often the handlers an update defined
\*            were called so far; how many animations have ended; how many
\*            `set` calls were made; the callId `_merge` was last called
\*            with.
VARIABLES spring, state, calls, frameLoop, events, hist

vars == <<spring, state, calls, frameLoop, events, hist>>

CallIds == 1..MaxCalls

\* AnimationResult: getFinishedResult, getCancelledResult, getNoopResult.
\* The `value` of a result is kept in the "resolve" event only.
NoResult == [cancelled |-> FALSE, noop |-> FALSE, finished |-> FALSE]

NoCall == [props |-> NoProps, range |-> [to |-> Und, from |-> Und],
           isLoop |-> FALSE, origin |-> 0, stage |-> "unused",
           result |-> NoResult, resolves |-> 0, next |-> 0,
           reached |-> FALSE, seen |-> 0, during |-> 0]

\* An entry of `animation.onRest`: `noop`, a wrapped `onRest` prop of the
\* update `id`, or the wrapped resolver of the call `id`; `to` is the
\* `animation.to` that checkFinishedOnRest captured.
NoopEntry == [k |-> "noop", id |-> 0, to |-> Und]

InitSpring ==
    [nodeType |-> "none", values |-> <<>>,
     changed |-> FALSE, to |-> Und, from |-> Und, toValues |-> Und,
     fromValues |-> <<>>, immediate |-> FALSE, config |-> DefaultConfig,
     onStart |-> 0, onChange |-> 0, onPause |-> 0, onResume |-> 0,
     onRest |-> <<>>,
     defaultProps |-> [config |-> "und", immediate |-> FALSE, onRest |-> 0,
                       onStart |-> 0, onChange |-> 0, onPause |-> 0,
                       onResume |-> 0],
     lastCallId |-> 0, lastToId |-> 0,
     hasAnimated |-> FALSE, isAnimating |-> FALSE, isPaused |-> FALSE]

InitState == [paused |-> FALSE, pauseQueue |-> <<>>, resumeQueue |-> <<>>,
              timeouts |-> {}]

InitHist == [onRest |-> [i \in CallIds |-> 0],
             onStart |-> [i \in CallIds |-> 0],
             ended |-> 0, sets |-> 0, merged |-> 0]

\* The world an operator works on: the variables, the promise jobs that are
\* runnable, whether the call bound was hit, and whether `_merge` threw.
World == [sv |-> spring, st |-> state, calls |-> calls, fl |-> frameLoop,
          ev |-> <<>>, hist |-> hist, micro |-> <<>>, overflow |-> FALSE,
          thrown |-> FALSE]

Emit(w, e) == [w EXCEPT !.ev = Append(@, e)]

\* FrameValue.get: the value of the Animated node.
Get(w) ==
    IF w.sv.nodeType = "none" THEN Und
    ELSE [t |-> w.sv.nodeType,
          v |-> [i \in 1..Len(w.sv.values) |-> w.sv.values[i].lastPosition]]

getFinishedResult(w, finished) ==
    [cancelled |-> FALSE, noop |-> FALSE, finished |-> finished,
     value |-> Get(w)]

getCancelledResult(w) ==
    [cancelled |-> TRUE, noop |-> FALSE, finished |-> FALSE,
     value |-> Get(w)]

getNoopResult(w, value) ==
    [cancelled |-> FALSE, noop |-> TRUE, finished |-> TRUE, value |-> value]

Stored(r) == [cancelled |-> r.cancelled, noop |-> r.noop,
              finished |-> r.finished]

ResultKind(r) ==
    IF r.cancelled THEN "cancelled" ELSE IF r.noop THEN "noop" ELSE "finished"

\* The `resolve` of the promise of call `id`.  Only the first call settles
\* the promise and makes its `.then` callback runnable.
Resolve(w, id, result) ==
    LET c == w.calls[id]
        w1 == Emit(w, <<"resolve", id, ResultKind(result), result.finished,
                        result.value>>)
    IN IF c.stage \in {"waiting", "merged"}
       THEN [w1 EXCEPT !.calls[id].stage = "resolved",
                       !.calls[id].result = Stored(result),
                       !.calls[id].resolves = @ + 1,
                       !.micro = Append(@, id)]
       ELSE [w1 EXCEPT !.calls[id].resolves = @ + 1]

\* callProp of a stored handler: `owner` is the update that defined it.
CallHandler(w, name, owner) ==
    IF owner = 0 THEN w
    ELSE LET w1 == Emit(w, <<name, owner>>)
         IN IF name = "onStart"
            THEN [w1 EXCEPT !.hist.onStart[owner] = @ + 1]
            ELSE w1

\* One entry of the onRest queue, called with `cancel`.
CallOnRest(w, e, cancel) ==
    LET result ==
            IF cancel THEN getCancelledResult(w)
            ELSE getFinishedResult(w,
                     isEqual(computeGoal(Get(w)), computeGoal(e.to)))
    IN CASE e.k = "noop" -> w
         [] e.k = "prop" ->
              [Emit(w, <<"onRest", e.id, ResultKind(result), result.finished>>)
                  EXCEPT !.hist.onRest[e.id] = @ + 1]
         [] OTHER -> Resolve(w, e.id, result)

RECURSIVE CallEach(_, _, _, _)
CallEach(w, queue, i, cancel) ==
    IF i > Len(queue) THEN w
    ELSE CallEach(CallOnRest(w, queue[i], cancel), queue, i + 1, cancel)

checkFinishedOnRest(w, kind, id) ==
    IF id = 0 THEN NoopEntry ELSE [k |-> kind, id |-> id, to |-> w.sv.to]

(* ---------------------- SpringValue: small methods -------------------- *)

_onStart(w) ==
    IF ~w.sv.changed
    THEN CallHandler([w EXCEPT !.sv.changed = TRUE], "onStart", w.sv.onStart)
    ELSE w

CallOnChange(w) == CallHandler(w, "onChange", w.sv.onChange)

_onChange(w, idle) == CallOnChange(IF ~idle THEN _onStart(w) ELSE w)

\* A `_focus` that does not store the value.
_focus_Dropped(w, value) == w

_focus(w, value) == [w EXCEPT !.sv.to = value]

\* AnimatedValue.setValue / AnimatedArray.setValue.
SetPayload(values, value) ==
    [i \in 1..Len(values) |->
        [values[i] EXCEPT !.lastPosition = value.v[i]]]

\* `_set`: create a new node or update the existing node.
SetNode(w, value) ==
    IF w.sv.nodeType # getAnimatedType(value)
    THEN [w EXCEPT !.sv.nodeType = getAnimatedType(value),
                   !.sv.values = CreatePayload(value)]
    ELSE [w EXCEPT !.sv.values = SetPayload(@, value)]

SetValue(w, value, force) ==
    IF IsUnd(value) THEN w
    ELSE IF w.sv.nodeType = "none" THEN SetNode(w, value)
    ELSE IF force \/ ~isEqual(value, Get(w))
         THEN _onChange(SetNode(w, value), TRUE)
         ELSE w

_set(w, arg, force) == SetValue(w, getFluidValue(arg), force)

\* `_stop`: the active bit is cleared and every node is done.
StopNodes(w) ==
    [w EXCEPT !.sv.isAnimating = FALSE,
              !.hist.ended = @ + 1,
              !.sv.values = [i \in 1..Len(@) |-> [@[i] EXCEPT !.done = TRUE]]]

\* `_stop`: the onRest queue is replaced and the old one is called.
StopQueue(w, cancel) ==
    IF Len(w.sv.onRest) > 0
    THEN CallEach([w EXCEPT !.sv.onRest =
                      << IF ~IsUnd(w.sv.toValues) THEN NoopEntry ELSE @[1] >>],
                  IF ~w.sv.changed THEN [w.sv.onRest EXCEPT ![1] = NoopEntry]
                  ELSE w.sv.onRest,
                  1, cancel)
    ELSE w

_stop(w, cancel) ==
    IF w.sv.isAnimating THEN StopQueue(StopNodes(w), cancel) ELSE w

\* A `finish` that moves a decay animation to its `to` value as well.
FinishSet_Always(w) == _set(w, w.sv.to, TRUE)

\* `finish`: the value jumps to the goal unless the animation is a decay.
FinishSet(w) ==
    IF ~w.sv.config.decay THEN _set(w, w.sv.to, TRUE) ELSE w

finish(w) ==
    IF w.sv.isAnimating THEN _stop(FinishSet(_onStart(w)), FALSE) ELSE w

\* G.skipAnimation is off: `_resume` enters the frame loop.
_resume(w) == [w EXCEPT !.fl = TRUE]

\* AnimatedValue.reset of every node of the payload.
ResetPayload(values) ==
    [i \in 1..Len(values) |->
        [values[i] EXCEPT !.done = FALSE, !.elapsedTime = 0,
                          !.lastVelocity = IF values[i].done THEN None ELSE @,
                          !.v0 = None]]

\* `_start`: the nodes are reset and the current values become the from
\* values.
StartNodes(w) ==
    [w EXCEPT !.sv.values = ResetPayload(@),
              !.sv.fromValues =
                  IF ~w.sv.immediate
                  THEN [i \in 1..Len(w.sv.values) |->
                           w.sv.values[i].lastPosition]
                  ELSE @]

\* A `_start` that clears `changed` on a value that is animating as well.
StartActive_Cleared(w) ==
    IF ~w.sv.isAnimating
    THEN IF ~w.sv.isPaused
         THEN _resume([w EXCEPT !.sv.isAnimating = TRUE,
                                !.sv.hasAnimated = TRUE,
                                !.sv.changed = FALSE])
         ELSE [w EXCEPT !.sv.isAnimating = TRUE,
                        !.sv.hasAnimated = TRUE,
                        !.sv.changed = FALSE]
    ELSE [w EXCEPT !.sv.changed = FALSE]

\* `_start`: an idle value becomes active and enters the frame loop unless
\* it is paused.
StartActive(w) ==
    IF ~w.sv.isAnimating
    THEN IF ~w.sv.isPaused
         THEN _resume([w EXCEPT !.sv.isAnimating = TRUE,
                                !.sv.hasAnimated = TRUE,
                                !.sv.changed = FALSE])
         ELSE [w EXCEPT !.sv.isAnimating = TRUE,
                        !.sv.hasAnimated = TRUE,
                        !.sv.changed = FALSE]
    ELSE w

_start(w) == StartActive(StartNodes(w))

(* ------------------------------- advance ------------------------------ *)

\* The spring branch's thresholds, times 10000 * Unit so that they are
\* integers: precision, and restVelocity = precision / 10.
\* `from` is Some(x), or None when `anim.fromValues[i]` is undefined or
\* NaN: the precision is then NaN (None here) and no comparison with it
\* is true.
PrecisionX(config, from, to) ==
    IF config.precision # None /\ config.precision # Some(0)
    THEN Some(config.precision[1] * Unit)
    ELSE IF from = None THEN None
    ELSE IF from[1] = to THEN Some(50 * Unit)
    ELSE Some(Min(10000 * Unit, Abs(to - from[1]) * 10))

IsMoving(config, from, to, velocity) ==
    IF config.restVelocity # None /\ config.restVelocity # Some(0)
    THEN Abs(velocity) * 10000 > config.restVelocity[1] * Unit
    ELSE /\ PrecisionX(config, from, to) # None
         /\ Abs(velocity) * 100000 > PrecisionX(config, from, to)[1]

\* line 251
IsNear(config, from, to, position) ==
    /\ PrecisionX(config, from, to) # None
    /\ Abs(to - position) * 10000 <= PrecisionX(config, from, to)[1]

\* line 237
IsGrowing(from, to, v0) ==
    IF from = None THEN FALSE
    ELSE IF from[1] = to THEN v0 > 0 ELSE from[1] < to

\* An `advance` that does not finish a node whose position is NaN.
EaseNaN_Running(velocity) ==
    [position |-> NaN, velocity |-> velocity, finished |-> FALSE,
     exact |-> TRUE]

\* lines 202, 213 and 278: the position computed from NaN is NaN, and
\* the node is finished.
EaseNaN(velocity) ==
    [position |-> NaN, velocity |-> velocity, finished |-> TRUE,
     exact |-> TRUE]

\* The 1 ms steps of the spring branch, from step `n` on.  `exact` says
\* that every acceleration so far was an integer.
RECURSIVE SpringSteps(_, _, _, _, _, _, _, _, _)
SpringSteps(n, numSteps, config, from, to, isGrowing, position, velocity, exact) ==
    IF n >= numSteps
    THEN [position |-> position, velocity |-> velocity, finished |-> FALSE,
          exact |-> exact]
    ELSE
    LET isMoving == IsMoving(config, from, to, velocity)
        finished == ~isMoving /\ IsNear(config, from, to, position)
        canBounce == config.clamp \/ config.bounce # None
        bounceFactor == IF config.clamp THEN 0 ELSE config.bounce[1]
        isBouncing == canBounce /\
                      (position = to \/ ((position > to) = isGrowing))
        v1 == IF isBouncing THEN (-velocity) * bounceFactor ELSE velocity
        p1 == IF isBouncing THEN to ELSE position
        \* (springForce + dampingForce) / mass
        num == -(config.tension * (p1 - to)) - 1000 * config.friction * v1
        den == 1000000 * config.mass
        v2 == v1 + (num \div den)
        p2 == p1 + v2
    IN IF finished
       THEN [position |-> position, velocity |-> velocity, finished |-> TRUE,
             exact |-> exact]
       ELSE SpringSteps(n + 1, numSteps, config, from, to, isGrowing,
                        p2, v2, exact /\ (num % den = 0))

\* lines 197-206, with a linear easing and no `progress`.
DurationEase(node, config, to, from, dt, elapsed) ==
    IF from = None THEN EaseNaN(NaN)
    ELSE IF config.duration[1] <= 0 \/ elapsed >= config.duration[1]
    THEN [position |-> to,
          velocity |-> (to - node.lastPosition) \div dt,
          finished |-> TRUE,
          exact |-> (to - node.lastPosition) % dt = 0]
    ELSE [position |->
              from[1] + ((elapsed * (to - from[1])) \div config.duration[1]),
          velocity |->
              (from[1] + ((elapsed * (to - from[1])) \div config.duration[1])
               - node.lastPosition) \div dt,
          finished |-> FALSE,
          exact |->
              /\ (elapsed * (to - from[1])) % config.duration[1] = 0
              /\ (from[1] + ((elapsed * (to - from[1])) \div config.duration[1])
                  - node.lastPosition) % dt = 0]

\* The easing of one node: the duration, decay or spring branch.  `v0` is
\* the node's initial velocity and `elapsed` its elapsed time after `dt`.
Ease(node, config, to, from, dt, elapsed, v0) ==
    IF config.duration # None
    THEN DurationEase(node, config, to, from, dt, elapsed)
    ELSE IF config.decay
    THEN IF from = None THEN EaseNaN(v0)
         ELSE \* With v0 = 0 the decay curve is the constant `from`.
              [position |-> from[1], velocity |-> 0,
               finished |-> Abs(node.lastPosition - from[1]) * 10 < Unit,
               exact |-> v0 = 0]
    ELSE IF node.lastPosition = NaN
    THEN EaseNaN(IF node.lastVelocity = None THEN v0
                 ELSE node.lastVelocity[1])
    ELSE SpringSteps(0, dt, config, from, to, IsGrowing(from, to, v0),
                     node.lastPosition,
                     IF node.lastVelocity = None THEN v0
                     ELSE node.lastVelocity[1],
                     TRUE)

\* The node after its easing step `r`.
Eased(node, elapsed, v0, r) ==
    [node |-> [node EXCEPT !.elapsedTime = elapsed, !.v0 = Some(v0),
                           !.lastVelocity = Some(r.velocity),
                           !.done = r.finished,
                           !.lastPosition = r.position],
     idle |-> r.finished,
     changed |-> r.position # node.lastPosition \/ r.position = NaN,
     exact |-> r.exact]

\* lines 284-287: parent springs must finish before their children can.
Held(r, wait) == [r EXCEPT !.finished = @ /\ ~wait]

\* The body of `anim.values.forEach` for one node that is not done.
\* `to` and `from` are toValues[i] and fromValues[i]; `to` is NaN when
\* toValues has no such entry; `wait` says that `anim.to` has a payload
\* whose node i is not done.
AdvanceNode(node, config, immediate, to, from, dt, wait) ==
    IF immediate
    THEN [node |-> [node EXCEPT !.done = ~wait, !.lastPosition = to],
          idle |-> ~wait, changed |-> node.lastPosition # to \/ to = NaN,
          exact |-> TRUE]
    ELSE IF config.tension <= 0
    THEN [node |-> [node EXCEPT !.done = TRUE],
          idle |-> TRUE, changed |-> FALSE, exact |-> TRUE]
    ELSE Eased(node, node.elapsedTime + dt,
               IF node.v0 # None THEN node.v0[1] ELSE config.velocity,
               Held(IF to = NaN THEN EaseNaN(NaN)
                    ELSE Ease(node, config, to, from, dt,
                              node.elapsedTime + dt,
                              IF node.v0 # None THEN node.v0[1]
                              ELSE config.velocity),
                    wait))

\* line 185: `anim.fromValues[i]`, undefined when `_start` has not set the
\* from values of the node.
FromValue(sv, i) ==
    IF i <= Len(sv.fromValues) /\ sv.fromValues[i] # NaN
    THEN Some(sv.fromValues[i]) ELSE None

\* lines 153 and 285: the payload of `anim.to` has a node i that is not
\* done.
Waits(sv, i) == IsParent(sv.to) /\ ~sv.to.done[i]

\* lines 164-170: the position of node i of the payload of `anim.to`, else
\* `toValues[i]`; an undefined goal makes every position computed from it
\* NaN.
ToValue(sv, i) ==
    IF IsParent(sv.to) THEN sv.to.v[i]
    ELSE IF i <= Len(sv.toValues.v) THEN sv.toValues.v[i] ELSE NaN

AdvanceNodes(w, dt) ==
    [i \in 1..Len(w.sv.values) |->
        IF w.sv.values[i].done
        THEN [node |-> w.sv.values[i], idle |-> TRUE, changed |-> FALSE,
              exact |-> TRUE]
        ELSE AdvanceNode(w.sv.values[i], w.sv.config, w.sv.immediate,
                         ToValue(w.sv, i), FromValue(w.sv, i), dt,
                         Waits(w.sv, i))]

\* Whether `advance(dt)` computes integers only.
AdvanceExact(w, dt) ==
    \A i \in 1..Len(w.sv.values) : AdvanceNodes(w, dt)[i].exact

\* An `advance` that leaves the end of the animation to the next frame.
Advanced_Late(w, r) ==
    IF \E i \in 1..Len(r) : r[i].changed
    THEN _onChange([w EXCEPT !.sv.values = [i \in 1..Len(r) |-> r[i].node]],
                   FALSE)
    ELSE [w EXCEPT !.sv.values = [i \in 1..Len(r) |-> r[i].node]]

\* The end of `advance`: `r` is what the nodes became.
Advanced(w, r) ==
    IF \A i \in 1..Len(r) : r[i].idle
    THEN finish([w EXCEPT !.sv.values = [i \in 1..Len(r) |-> r[i].node]])
    ELSE IF \E i \in 1..Len(r) : r[i].changed
    THEN _onChange([w EXCEPT !.sv.values = [i \in 1..Len(r) |-> r[i].node]],
                   FALSE)
    ELSE [w EXCEPT !.sv.values = [i \in 1..Len(r) |-> r[i].node]]

advance(w, dt) == Advanced(w, AdvanceNodes(w, dt))

(* ------------------------- stop, set, _merge -------------------------- *)

\* runAsync: stopAsync(state, cancelId).  Every timer and waiter is
\* released, and every update that still waits for its delay or for
\* `resume` (callId <= cancelId, or all of them without a cancelId) is
\* resolved as cancelled.
RECURSIVE CancelWaiting(_, _, _)
CancelWaiting(w, id, cancelId) ==
    IF id > MaxCalls THEN w
    ELSE CancelWaiting(
             IF w.calls[id].stage = "waiting" /\ (cancelId = 0 \/ id <= cancelId)
             THEN Resolve(w, id, getCancelledResult(w))
             ELSE w,
             id + 1, cancelId)

stopAsync(w, cancelId) ==
    CancelWaiting([w EXCEPT !.st.timeouts = {}, !.st.pauseQueue = <<>>,
                            !.st.resumeQueue = <<>>],
                  1, cancelId)

\* `stop`: ensure the `to` value equals the current value.
FocusCurrent(w) == _focus(w, Get(w))

\* A `stop` that does not pass `cancel` on to `_stop`.
stop_Uncancelled(w, cancel) ==
    _stop(FocusCurrent(stopAsync(w, IF cancel THEN w.sv.lastCallId ELSE 0)),
          FALSE)

stop(w, cancel) ==
    _stop(FocusCurrent(stopAsync(w, IF cancel THEN w.sv.lastCallId ELSE 0)),
          cancel)

set(w, value) == _stop(_set(_focus(w, value), value, FALSE), FALSE)

\* helpers: mergeDefaultProps, for the props a default update defines.
mergeDefaultProps(defaultProps, props, owner) ==
    [config    |-> IF props.config # "und" THEN props.config
                   ELSE defaultProps.config,
     immediate |-> IF props.immediate THEN TRUE ELSE defaultProps.immediate,
     onRest    |-> IF props.onRest THEN owner ELSE defaultProps.onRest,
     onStart   |-> IF props.onStart THEN owner ELSE defaultProps.onStart,
     onChange  |-> IF props.onChange THEN owner ELSE defaultProps.onChange,
     onPause   |-> IF props.onPause THEN owner ELSE defaultProps.onPause,
     onResume  |-> IF props.onResume THEN owner ELSE defaultProps.onResume]

\* resolveEventProp: the update's handler, else the default one.
resolveEventProp(defaultProps, props, prop, owner) ==
    IF props[prop] THEN owner ELSE defaultProps[prop]

\* AnimationConfig: mergeConfig.  Every config an update carries defines
\* every field, so merging it replaces the config.
mergeConfig(config, name) == ConfigOf(name)

\* lines 539-546: the "to" prop or the "from" prop is defined.
DefinesRangeOf(range) == ~IsUnd(range.to) \/ ~IsUnd(range.from)

\* SpringPhase: setActiveBit(this, false).
setActiveBitOff(w) == [w EXCEPT !.sv.isAnimating = FALSE]

\* A `_merge` that starts an animation whenever the config has a velocity.
ConfigStarts_Velocity(config, decay, velocity) ==
    config.decay \/ config.velocity # 0

\* lines 684-690: changing "decay" or "velocity" starts the animation.
ConfigStarts(config, decay, velocity) ==
    ~isEqual(config.decay, decay) \/ ~isEqual(config.velocity, velocity)

\* What `_merge` decides from line 629 on, for the call `id` and the range
\* `r` of RangePlan, before it changes the animation: `reset`, `value`,
\* `goal`, `immediate`, the type mismatch, `started`, and whether the
\* animation is stopped before its first frame.
MergePlan(w, id, r) ==
    LET props == w.calls[id].props
        reset == IF props.reset = "und" THEN r.hasFromProp /\ ~props.default
                 ELSE ~IsUnd(r.from) /\ props.reset = "true"
        value == IF reset THEN r.from ELSE Get(w)
        goal == computeGoal(r.to)
        hasValueChanged == reset \/ (~w.sv.hasAnimated /\ r.hasFromChanged)
        finished == (r.hasToChanged \/ hasValueChanged)
                    /\ isEqual(computeGoal(value), goal)
        started == ((r.hasToChanged \/ hasValueChanged) /\ ~finished)
                   \/ ConfigStarts(w.sv.config, r.decay, r.velocity)
        restart == finished /\ w.sv.isAnimating /\ w.sv.changed /\ ~reset
    IN [id |-> id, props |-> props, owner |-> w.calls[id].origin,
        defaultProps |-> w.sv.defaultProps,
        prevTo |-> r.prevTo, hasToChanged |-> r.hasToChanged,
        reset |-> reset, value |-> value, goal |-> goal,
        immediate |-> w.sv.defaultProps.immediate \/ props.immediate,
        mismatch |-> r.hasToChanged /\ getAnimatedType(r.to) # w.sv.nodeType,
        started |-> started \/ restart,
        stopFirst |-> finished /\ w.sv.isAnimating /\ ~restart /\ ~started]

\* lines 652-662: an immediate update replaces a node of another type.
MergeNode(w, m) == IF m.mismatch THEN _set(w, m.goal, FALSE) ELSE w

\* A `_merge` that never stops the animation before its first frame.
MergeStop_Never(w, m) == w

\* lines 693-703: stop the animation before its first frame.
MergeStop(w, m) == IF m.stopFirst THEN _stop(w, FALSE) ELSE w

\* lines 705-715
MergeToValues(w, m) ==
    IF m.started THEN [w EXCEPT !.sv.toValues = Arr(toArray(m.goal))] ELSE w

\* lines 717-724
MergeImmediate(w, m) ==
    IF w.sv.immediate # m.immediate
    THEN IF ~m.immediate /\ ~m.reset
         THEN _set([w EXCEPT !.sv.immediate = m.immediate], m.prevTo, FALSE)
         ELSE [w EXCEPT !.sv.immediate = m.immediate]
    ELSE w

\* A `_merge` that stores the handlers of every update it merges.
MergeHandlers_Always(w, m) ==
    [w EXCEPT
       !.sv.onStart = resolveEventProp(m.defaultProps, m.props, "onStart", m.owner),
       !.sv.onChange = resolveEventProp(m.defaultProps, m.props, "onChange", m.owner),
       !.sv.onPause = resolveEventProp(m.defaultProps, m.props, "onPause", m.owner),
       !.sv.onResume = resolveEventProp(m.defaultProps, m.props, "onResume", m.owner)]

\* lines 726-733
MergeHandlers(w, m) ==
    IF m.started
    THEN [w EXCEPT
            !.sv.onStart = resolveEventProp(m.defaultProps, m.props, "onStart", m.owner),
            !.sv.onChange = resolveEventProp(m.defaultProps, m.props, "onChange", m.owner),
            !.sv.onPause = resolveEventProp(m.defaultProps, m.props, "onPause", m.owner),
            !.sv.onResume = resolveEventProp(m.defaultProps, m.props, "onResume", m.owner)]
    ELSE w

\* lines 737-741: the first entry of the new onRest queue.
MergedOnRest(w, m) ==
    IF m.reset /\ ~m.props.onRest
    THEN IF Len(w.sv.onRest) > 0 THEN w.sv.onRest[1] ELSE NoopEntry
    ELSE checkFinishedOnRest(w, "prop",
             resolveEventProp(m.defaultProps, m.props, "onRest", m.owner))

\* A `_merge` that does not flush the queue of the previous animation.
MergeOnRest_Unflushed(w, m) ==
    IF m.started
    THEN [w EXCEPT !.sv.onRest = << MergedOnRest(w, m),
                                   checkFinishedOnRest(w, "res", m.id) >>]
    ELSE IF m.reset \/ m.props.onRest
    THEN [w EXCEPT !.sv.onRest =
             IF Len(@) = 0 THEN << MergedOnRest(w, m) >>
             ELSE [@ EXCEPT ![1] = MergedOnRest(w, m)]]
    ELSE w

\* A `_merge` that never calls slot 0 of the previous queue.
MergeOnRest_KeepSlot(w, m) ==
    IF m.started
    THEN CallEach([w EXCEPT !.sv.onRest =
                      << MergedOnRest(w, m),
                         checkFinishedOnRest(w, "res", m.id) >>],
                  w.sv.onRest, 2, FALSE)
    ELSE IF m.reset \/ m.props.onRest
    THEN [w EXCEPT !.sv.onRest =
             IF Len(@) = 0 THEN << MergedOnRest(w, m) >>
             ELSE [@ EXCEPT ![1] = MergedOnRest(w, m)]]
    ELSE w

\* lines 743-763
MergeOnRest(w, m) ==
    IF m.started
    THEN CallEach([w EXCEPT !.sv.onRest =
                      << MergedOnRest(w, m),
                         checkFinishedOnRest(w, "res", m.id) >>],
                  w.sv.onRest, IF m.reset THEN 1 ELSE 2, FALSE)
    ELSE IF m.reset \/ m.props.onRest
    THEN [w EXCEPT !.sv.onRest =
             IF Len(@) = 0 THEN << MergedOnRest(w, m) >>
             ELSE [@ EXCEPT ![1] = MergedOnRest(w, m)]]
    ELSE w

\* lines 766-769
MergeValue(w, m) == IF m.reset THEN _set(w, m.value, FALSE) ELSE w

\* A `_merge` that resolves at once an update it should postpone.
MergeEnd_Eager(w, m) ==
    IF m.started
    THEN _start(IF m.reset THEN setActiveBitOff(w) ELSE w)
    ELSE Resolve(w, m.id, getNoopResult(w, m.value))

\* A `_merge` that does not keep the resolver of an update it postpones.
MergeEnd_Forgetful(w, m) ==
    IF m.started
    THEN _start(IF m.reset THEN setActiveBitOff(w) ELSE w)
    ELSE IF w.sv.isAnimating /\ ~m.hasToChanged
    THEN w
    ELSE Resolve(w, m.id, getNoopResult(w, m.value))

\* lines 775-793
MergeEnd(w, m) ==
    IF m.started
    THEN _start(IF m.reset THEN setActiveBitOff(w) ELSE w)
    ELSE IF w.sv.isAnimating /\ ~m.hasToChanged
    THEN [w EXCEPT !.sv.onRest =
             Append(@, checkFinishedOnRest(w, "res", m.id))]
    ELSE Resolve(w, m.id, getNoopResult(w, m.value))

\* `_merge` from line 629 on: the node exists and `to` is defined.  A type
\* mismatch of an update that is not immediate throws.
MergeRange(w, m) ==
    IF m.mismatch /\ ~m.immediate
    THEN [w EXCEPT !.thrown = TRUE]
    ELSE MergeEnd(MergeValue(MergeOnRest(MergeHandlers(MergeImmediate(
             MergeToValues(MergeStop(MergeNode(w, m), m), m), m), m), m), m), m)

\* A `_merge` without the precedence test.
TakesEffect_Always(callId, lastToId) == TRUE

\* The precedence test of `_merge`: `props.callId > this._lastToId`.
TakesEffect(callId, lastToId) == callId > lastToId

\* lines 568-592 and 606: the range `_merge` works with, computed from the
\* range of the call `id` and the animation as `_merge` found it.
RangePlan(w, id) ==
    LET props == w.calls[id].props
        range == w.calls[id].range
        hasToProp == ~IsUnd(range.to)
        hasFromProp == ~IsUnd(range.from)
        to0 == IF hasToProp THEN range.to ELSE w.sv.to
        from0 == IF hasFromProp THEN range.from ELSE w.sv.from
        to1 == IF hasFromProp /\ ~hasToProp /\ (~props.default \/ IsUnd(to0))
               THEN from0 ELSE to0
        to == IF props.reverse THEN from0 ELSE to1
        from == IF props.reverse THEN to1 ELSE from0
    IN [to |-> to, from |-> from, prevTo |-> w.sv.to,
        hasToProp |-> hasToProp, hasFromProp |-> hasFromProp,
        hasFromChanged |-> ~isEqual(from, w.sv.from),
        hasToChanged |-> ~isEqual(to, w.sv.to),
        decay |-> w.sv.config.decay, velocity |-> w.sv.config.velocity]

\* A `_merge` that takes the precedence for every update it merges.
MergeLastToId_Any(w, id, r) == [w EXCEPT !.sv.lastToId = id]

\* lines 546-549
MergeLastToId(w, id, r) ==
    IF r.hasToProp \/ r.hasFromProp THEN [w EXCEPT !.sv.lastToId = id] ELSE w

\* lines 564-566
MergeDefaults(w, id) ==
    IF w.calls[id].props.default
    THEN [w EXCEPT !.sv.defaultProps =
             mergeDefaultProps(@, w.calls[id].props, w.calls[id].origin)]
    ELSE w

\* lines 583-585
MergeFrom(w, r) == IF r.hasFromChanged THEN [w EXCEPT !.sv.from = r.from] ELSE w

\* lines 590-592
MergeTo(w, r) == IF r.hasToChanged THEN _focus(w, r.to) ELSE w

\* lines 605-619
MergeConfig(w, id) ==
    IF w.calls[id].props.config # "und"
    THEN [w EXCEPT !.sv.config = mergeConfig(@, w.calls[id].props.config)]
    ELSE w

\* lines 621-626, and the rest of `_merge`.
MergeNodeOrEnd(w, id, r) ==
    IF w.sv.nodeType = "none" \/ IsUnd(r.to)
    THEN Resolve(w, id, getFinishedResult(w, TRUE))
    ELSE MergeRange(w, MergePlan(w, id, r))

\* A cancel that takes the `to`/`from` precedence for itself.
MergeCancel_Ranged(w, id) ==
    Resolve(MergeLastToId(w, id, RangePlan(w, id)), id, getCancelledResult(w))

\* lines 530-533
MergeCancel(w, id) == Resolve(w, id, getCancelledResult(w))

\* lines 546-626 for an update that is no cancel and takes effect.
MergeProps(w, id, r) ==
    MergeNodeOrEnd(
        MergeConfig(MergeTo(MergeFrom(MergeDefaults(MergeLastToId(w, id, r), id),
                                      r), r), id),
        id, r)

\* `_merge(range, props, resolve)` for the call `id`; `cancel` is the
\* `cancel` prop that scheduleProps passes.
_merge(w, id, cancel) ==
    IF cancel THEN MergeCancel(stop(w, TRUE), id)
    ELSE IF DefinesRangeOf(w.calls[id].range)
            /\ ~TakesEffect(id, w.sv.lastToId)
    THEN Resolve(w, id, getCancelledResult(w))
    ELSE MergeProps(w, id, RangePlan(w, id))

(* ----------------------- scheduleProps, _update ------------------------ *)

RemoveId(q, id) == SelectSeq(q, LAMBDA x : x # id)

\* scheduleProps: onStart.  The update leaves its delay and is merged; an
\* error `_merge` raises rejects the update's promise.  `reached` and `seen`
\* record that the update reached `_merge` and the `_lastToId` it found,
\* `hist.merged` the last update that reached `_merge`.
LeaveDelay(w, id) ==
    [w EXCEPT !.st.pauseQueue = RemoveId(@, id),
              !.st.timeouts = @ \ {id},
              !.calls[id].stage = "merged",
              !.calls[id].reached = TRUE,
              !.calls[id].seen = w.sv.lastToId,
              !.hist.merged = id]

CallMerge(w, id) == _merge(w, id, w.calls[id].props.cancel)

Reject(w, id) ==
    IF w.thrown
    THEN [Emit(w, <<"throw", id>>) EXCEPT !.thrown = FALSE,
                                         !.calls[id].stage = "rejected"]
    ELSE w

OnStartSched(w, id) == Reject(CallMerge(LeaveDelay(w, id), id), id)

\* scheduleProps: onResume.  A positive delay starts a timer.
OnResumeSched(w, id) ==
    IF w.calls[id].stage # "waiting" THEN w
    ELSE IF w.calls[id].props.delay > 0
    THEN [w EXCEPT !.st.pauseQueue = Append(@, id),
                   !.st.timeouts = @ \cup {id}]
    ELSE OnStartSched(w, id)

\* scheduleProps: onPause, for every running timer (flushCalls).
RECURSIVE FlushPause(_, _, _)
FlushPause(w, queue, i) ==
    IF i > Len(queue) THEN w
    ELSE FlushPause([w EXCEPT !.st.resumeQueue = Append(@, queue[i]),
                              !.st.timeouts = @ \ {queue[i]}],
                    queue, i + 1)

RECURSIVE FlushResume(_, _, _)
FlushResume(w, queue, i) ==
    IF i > Len(queue) THEN w
    ELSE FlushResume(OnResumeSched(w, queue[i]), queue, i + 1)

CallOnPause(w) == CallHandler(w, "onPause", w.sv.onPause)

CallOnResume(w) == CallHandler(w, "onResume", w.sv.onResume)

\* `actions.pause` of `_update`.
ActionPause(w) ==
    IF ~w.sv.isPaused
    THEN CallOnPause(FlushPause([w EXCEPT !.sv.isPaused = TRUE,
                                          !.st.pauseQueue = <<>>],
                                w.st.pauseQueue, 1))
    ELSE w

\* A `resume` that clears the paused bit without entering the frame loop.
Unpause_Unregistered(w) == [w EXCEPT !.sv.isPaused = FALSE]

Unpause(w) ==
    IF w.sv.isAnimating THEN _resume([w EXCEPT !.sv.isPaused = FALSE])
    ELSE [w EXCEPT !.sv.isPaused = FALSE]

\* flushCalls(state.resumeQueue)
FlushResumeQueue(w) ==
    FlushResume([w EXCEPT !.st.resumeQueue = <<>>], w.st.resumeQueue, 1)

\* `actions.resume` of `_update`.
ActionResume(w) ==
    IF w.sv.isPaused THEN CallOnResume(FlushResumeQueue(Unpause(w))) ELSE w

\* scheduleProps: the `pause` prop sets the paused flag.
SchedulePause(w, id) ==
    IF w.calls[id].props.pause # "und"
    THEN [w EXCEPT !.st.paused = (w.calls[id].props.pause = "true")]
    ELSE w

\* scheduleProps: a paused value holds the update until `resume`.
ScheduleStart(w, id) ==
    IF w.st.paused
    THEN ActionPause([w EXCEPT !.st.resumeQueue = Append(@, id)])
    ELSE OnResumeSched(ActionResume(w), id)

\* scheduleProps(callId, ...): a cancel is merged at once.
scheduleProps(w, id) ==
    IF w.calls[id].props.cancel THEN OnStartSched(w, id)
    ELSE ScheduleStart(SchedulePause(w, id), id)

_prepareNode(w, props) ==
    IF ~w.sv.hasAnimated
    THEN IF ~IsUnd(IF props.reverse THEN props.to ELSE props.from)
         THEN _set(w, IF props.reverse THEN props.to ELSE props.from, FALSE)
         ELSE IF w.sv.nodeType = "none"
         THEN _set(w, IF props.reverse THEN props.from ELSE props.to, FALSE)
         ELSE w
    ELSE w

\* An `_update` that skips a callId when it can.
NewCall_Skipping(w, props, isLoop, prev) ==
    [w EXCEPT
       !.sv.lastCallId = Min(@ + 2, MaxCalls),
       !.calls[Min(w.sv.lastCallId + 2, MaxCalls)] =
           [NoCall EXCEPT !.props = props,
                          !.range = [to |-> props.to, from |-> props.from],
                          !.isLoop = isLoop,
                          !.origin = IF prev = 0
                                     THEN Min(w.sv.lastCallId + 2, MaxCalls)
                                     ELSE w.calls[prev].origin,
                          !.stage = "waiting",
                          !.during = IF w.sv.isAnimating
                                     THEN w.hist.ended + 1
                                     ELSE 0]]

\* `scheduleProps(++this._lastCallId, ...)`: the call and its promise.
\* `prev` is the call whose loop this update continues (0: none); `during`
\* is the animation that was active.
NewCall(w, props, isLoop, prev) ==
    [w EXCEPT
       !.sv.lastCallId = @ + 1,
       !.calls[w.sv.lastCallId + 1] =
           [NoCall EXCEPT !.props = props,
                          !.range = [to |-> props.to, from |-> props.from],
                          !.isLoop = isLoop,
                          !.origin = IF prev = 0 THEN w.sv.lastCallId + 1
                                     ELSE w.calls[prev].origin,
                          !.stage = "waiting",
                          !.during = IF w.sv.isAnimating
                                     THEN w.hist.ended + 1
                                     ELSE 0]]

\* The call `prev` is continued by the call just made.
LinkLoop(w, prev) ==
    IF prev = 0 THEN w ELSE [w EXCEPT !.calls[prev].next = w.sv.lastCallId]

ScheduleLast(w) == scheduleProps(w, w.sv.lastCallId)

\* `_update(props, isLoop)` up to the promise scheduleProps returns.
_update(w, props, isLoop, prev) ==
    IF w.sv.lastCallId >= MaxCalls THEN [w EXCEPT !.overflow = TRUE]
    ELSE ScheduleLast(LinkLoop(NewCall(_prepareNode(w, props), props, isLoop,
                                       prev), prev))

createLoopUpdate(props) ==
    [props EXCEPT !.default = FALSE, !.pause = "false",
                  !.to = IF ~props.reverse THEN props.to ELSE Und,
                  !.reset = "true"]

\* A `.then` callback that continues a loop once only.
ThenLoop_Once(w, id, loopRet) ==
    IF /\ w.calls[id].props.loop # "und"
       /\ w.calls[id].result.finished
       /\ ~w.calls[id].isLoop
    THEN IF w.calls[id].props.loop = "true" \/ loopRet
         THEN _update(w, createLoopUpdate(w.calls[id].props), TRUE, id)
         ELSE Emit(w, <<"loopEnd", id>>)
    ELSE w

\* A `.then` callback that continues a loop whatever the result is.
ThenLoop_Unfinished(w, id, loopRet) ==
    IF w.calls[id].props.loop # "und"
    THEN IF w.calls[id].props.loop = "true" \/ loopRet
         THEN _update(w, createLoopUpdate(w.calls[id].props), TRUE, id)
         ELSE Emit(w, <<"loopEnd", id>>)
    ELSE w

\* The `.then` callback of `_update` for the settled call `id`; `loopRet`
\* is what a `loop` predicate returns.
ThenLoop(w, id, loopRet) ==
    IF /\ w.calls[id].props.loop # "und"
       /\ w.calls[id].result.finished
       /\ ~(w.calls[id].isLoop /\ w.calls[id].result.noop)
    THEN IF w.calls[id].props.loop = "true" \/ loopRet
         THEN _update(w, createLoopUpdate(w.calls[id].props), TRUE, id)
         ELSE Emit(w, <<"loopEnd", id>>)
    ELSE w

\* The promise jobs, run until none is left.
RECURSIVE Drain(_, _)
Drain(w, loopRet) ==
    IF w.overflow \/ w.micro = <<>> THEN w
    ELSE Drain(ThenLoop([w EXCEPT !.micro = Tail(@)], Head(w.micro), loopRet),
               loopRet)

(* ------------------------------ actions ------------------------------- *)

\* The world at the start of an action; `tag` names the action in `events`.
Call(tag) == [World EXCEPT !.ev = << tag >>]

Install(w) ==
    /\ ~w.overflow
    /\ spring' = w.sv
    /\ state' = w.st
    /\ calls' = w.calls
    /\ frameLoop' = w.fl
    /\ events' = w.ev
    /\ hist' = w.hist

Init ==
    /\ spring = InitSpring
    /\ state = InitState
    /\ calls = [i \in CallIds |-> NoCall]
    /\ frameLoop = FALSE
    /\ events = <<>>
    /\ hist = InitHist

\* start(props)
Start(props, loopRet) ==
    /\ spring.lastCallId < MaxCalls
    /\ Install(Drain(_update(Call(<<"start">>), props, FALSE, 0), loopRet))

\* pause(), resume(), reset()
Pause(loopRet) ==
    /\ spring.lastCallId < MaxCalls
    /\ Install(Drain(_update(Call(<<"pause">>),
                             [NoProps EXCEPT !.pause = "true"], FALSE, 0),
                     loopRet))

Resume(loopRet) ==
    /\ spring.lastCallId < MaxCalls
    /\ Install(Drain(_update(Call(<<"resume">>),
                             [NoProps EXCEPT !.pause = "false"], FALSE, 0),
                     loopRet))

Reset(loopRet) ==
    /\ spring.lastCallId < MaxCalls
    /\ Install(Drain(_update(Call(<<"reset">>),
                             [NoProps EXCEPT !.reset = "true"], FALSE, 0),
                     loopRet))

\* stop(cancel), finish(), set(value)
Stop(cancel, loopRet) ==
    /\ cancel \in BOOLEAN
    /\ Install(Drain(stop(Call(<<"stop", cancel>>), cancel), loopRet))

Finish(loopRet) ==
    /\ loopRet \in BOOLEAN
    /\ Install(Drain(finish(Call(<<"finish">>)), loopRet))

Set(value, loopRet) ==
    /\ hist.sets < MaxSets
    /\ Install(Drain(set([Call(<<"set">>) EXCEPT !.hist.sets = @ + 1], value),
                     loopRet))

\* The timer of a delayed update expires.
TimerFire(id, loopRet) ==
    /\ id \in state.timeouts
    /\ Install(Drain(OnStartSched(Call(<<"timer", id>>), id), loopRet))

\* FrameLoop: one frame.  An idle spring leaves the frame loop, any other
\* is advanced and leaves it when that made it idle.
Idle(w) == ~w.sv.isAnimating \/ w.sv.isPaused

\* An idle spring leaves the frame loop.
LeaveIfIdle(w) == IF Idle(w) THEN [w EXCEPT !.fl = FALSE] ELSE w

\* No node's elapsed time passes MaxElapsed in a frame of `dt`.
InTime(w, dt) ==
    \A i \in 1..Len(w.sv.values) :
        w.sv.values[i].done \/ w.sv.values[i].elapsedTime + dt <= MaxElapsed

Frame(dt, loopRet) ==
    /\ frameLoop
    /\ IF Idle(World)
       THEN Install([Call(<<"frame", 0>>) EXCEPT !.fl = FALSE])
       ELSE /\ InTime(World, dt)
            /\ AdvanceExact(World, dt)
            /\ Install(Drain(LeaveIfIdle(advance(Call(<<"frame", dt>>), dt)),
                             loopRet))

(* --------------------------- specifications --------------------------- *)

V0 == Num(0)
V1 == Num(Unit)
V2 == Num(2 * Unit)

\* The updates `start` is called with.
StartProps ==
    { [NoProps EXCEPT !.to = V1, !.config = "dur2", !.onRest = TRUE,
                      !.onStart = TRUE],
      [NoProps EXCEPT !.to = V2, !.config = "dur2", !.delay = 1],
      [NoProps EXCEPT !.to = V2, !.config = "stiff"],
      [NoProps EXCEPT !.cancel = TRUE] }

SetValues == {V0}

\* The public methods but `set`, the timers and the frames, with the
\* updates of P given to `start`.
NextOver(P) ==
    \E loopRet \in BOOLEAN :
        \/ \E props \in P : Start(props, loopRet)
        \/ Pause(loopRet)
        \/ Resume(loopRet)
        \/ Reset(loopRet)
        \/ \E cancel \in BOOLEAN : Stop(cancel, loopRet)
        \/ Finish(loopRet)
        \/ \E id \in CallIds : TimerFire(id, loopRet)
        \/ \E dt \in DtSet : Frame(dt, loopRet)

Next == NextOver(StartProps)

Spec == Init /\ [][Next]_vars

\* The same with `set`.
NextSet ==
    \/ NextOver(StartProps)
    \/ \E value \in SetValues, loopRet \in BOOLEAN : Set(value, loopRet)

SpecSet == Init /\ [][NextSet]_vars

\* Updates with a `to` and a `config`, one of them with a velocity, and a
\* delayed update that only changes the config.
IdemProps ==
    { [NoProps EXCEPT !.to = V1, !.config = "kick", !.onStart = TRUE],
      [NoProps EXCEPT !.to = V2, !.config = "dur2", !.onStart = TRUE,
                      !.onRest = TRUE],
      [NoProps EXCEPT !.config = "stiff", !.delay = 1] }

NextIdem == NextOver(IdemProps)

SpecIdem == Init /\ [][NextIdem]_vars

\* Updates that animate from V0: a spring, an immediate one, and a delayed
\* one.
PauseProps ==
    { [NoProps EXCEPT !.to = V1, !.from = V0, !.config = "stiff"],
      [NoProps EXCEPT !.to = V1, !.from = V0, !.immediate = TRUE],
      [NoProps EXCEPT !.to = V2, !.config = "dur2", !.delay = 1] }

NextPause == NextOver(PauseProps)

SpecPause == Init /\ [][NextPause]_vars

\* The looping update `loop: true, to: 1, from: 0` with an onRest handler,
\* the same update with a predicate as `loop`, and a delayed update.
LoopProps ==
    { [NoProps EXCEPT !.to = V1, !.from = V0, !.loop = "true",
                      !.config = "dur2", !.onRest = TRUE],
      [NoProps EXCEPT !.to = V1, !.from = V0, !.loop = "fn",
                      !.config = "dur2"],
      [NoProps EXCEPT !.to = V2, !.config = "dur2", !.delay = 1] }

NextLoop == NextOver(LoopProps)

SpecLoop == Init /\ [][NextLoop]_vars

\* Updates to a number and to an array: one that is not immediate and
\* defines default props, an immediate one, and a delayed one.
A1 == Arr(<< Unit, Unit >>)

TypeProps ==
    { [NoProps EXCEPT !.to = V1, !.config = "dur2"],
      [NoProps EXCEPT !.to = A1, !.from = Arr(<< 0, 0 >>),
                      !.config = "stiff", !.default = TRUE,
                      !.onRest = TRUE],
      [NoProps EXCEPT !.to = A1, !.immediate = TRUE],
      [NoProps EXCEPT !.to = V2, !.config = "dur2", !.delay = 1] }

NextType == NextOver(TypeProps)

SpecType == Init /\ [][NextType]_vars

\* The timers fire and the frame loop keeps ticking: weak fairness of
\* TimerFire and of Frame.  A frame that finds the value idle is FrameIdle;
\* for the timers and for the frames that advance the value, weak
\* fairness is written out, []<>~ENABLED <<A>>_vars \/ []<><<A>>_vars, with
\* the guard of the action for ENABLED and the name the action leaves in
\* `events` for the step.
FrameIdle ==
    /\ frameLoop
    /\ Idle(World)
    /\ Install([Call(<<"frame", 0>>) EXCEPT !.fl = FALSE])

TimersEnabled == state.timeouts # {}

TimerStep == events' # <<>> /\ events'[1][1] = "timer"

AdvanceEnabled ==
    /\ frameLoop
    /\ ~Idle(World)
    /\ \E dt \in DtSet : InTime(World, dt) /\ AdvanceExact(World, dt)

AdvanceStep ==
    events' # <<>> /\ events'[1][1] = "frame" /\ events'[1][2] > 0

\* Updates to a number, one of them delayed, and to an array.
SettleProps ==
    { [NoProps EXCEPT !.to = V1, !.config = "dur2"],
      [NoProps EXCEPT !.to = V2, !.config = "dur2", !.delay = 1],
      [NoProps EXCEPT !.to = A1, !.config = "dur2"] }

NextSettle == NextOver(SettleProps)

FairSettle ==
    /\ Init /\ [][NextSettle]_vars
    /\ WF_vars(FrameIdle)
    /\ []<>(~TimersEnabled) \/ []<><<TimerStep>>_vars
    /\ []<>(~AdvanceEnabled) \/ []<><<AdvanceStep>>_vars

\* Updates with handlers: a duration animation, a decay animation, and a
\* delayed update.
FinishProps ==
    { [NoProps EXCEPT !.to = V1, !.config = "dur2", !.onStart = TRUE,
                      !.onRest = TRUE],
      [NoProps EXCEPT !.to = V2, !.config = "decay", !.onStart = TRUE,
                      !.onRest = TRUE],
      [NoProps EXCEPT !.to = V2, !.config = "dur2", !.delay = 1] }

NextFinish == NextOver(FinishProps)

SpecFinish == Init /\ [][NextFinish]_vars

\* Updates that fill the onRest queue: one with `from` (a reset) and an
\* onRest handler, one with another goal and an onRest handler, one that
\* only repeats the config (its resolver is postponed), and a delayed one.
QueueProps ==
    { [NoProps EXCEPT !.to = V1, !.from = V0, !.config = "dur2",
                      !.onRest = TRUE],
      [NoProps EXCEPT !.to = V2, !.config = "dur2", !.onRest = TRUE],
      [NoProps EXCEPT !.config = "dur2"],
      [NoProps EXCEPT !.to = V2, !.config = "dur2", !.delay = 1] }

NextQueue == NextOver(QueueProps)

SpecQueue == Init /\ [][NextQueue]_vars

\* Updates with a duration, with a loose spring (tension 0), and a delayed
\* one.
LooseProps ==
    { [NoProps EXCEPT !.to = V1, !.config = "dur2"],
      [NoProps EXCEPT !.to = V2, !.config = "loose"],
      [NoProps EXCEPT !.to = V2, !.config = "dur2", !.delay = 1] }

NextLoose == NextOver(LooseProps)

SpecLoose == Init /\ [][NextLoose]_vars

\* A damped spring from V0 to V1 with a tension of 2000000, and a delayed
\* update.
SpringProps ==
    { [NoProps EXCEPT !.to = V1, !.from = V0, !.config = "rigid"],
      [NoProps EXCEPT !.to = V2, !.config = "dur2", !.delay = 1] }

NextSpring == NextOver(SpringProps)

SpecSpring == Init /\ [][NextSpring]_vars

\* A child of a parent: the value after `start({to: parent, config,
\* immediate})`, which always starts an animation (line 671), at the
\* positions `pos`.  The nodes were reset by `_start`, the from values are
\* the positions unless the animation is immediate, `toValues` is null,
\* and the resolver of the update is in the onRest queue.
ChildOf(par, cfg, imm, pos) ==
    [InitSpring EXCEPT
        !.nodeType = par.pt,
        !.values = [i \in 1..Len(pos) |->
                       [NewNode(pos[i]) EXCEPT !.done = FALSE]],
        !.to = par,
        !.fromValues = IF imm THEN <<>> ELSE pos,
        !.immediate = imm,
        !.config = ConfigOf(cfg),
        !.onRest = << NoopEntry, [k |-> "res", id |-> 1, to |-> par] >>,
        !.lastCallId = 1, !.lastToId = 1,
        !.hasAnimated = TRUE, !.isAnimating = TRUE]

\* The update that made the value a child, merged and not resolved.
ChildCall(par, cfg, imm) ==
    [NoCall EXCEPT !.props = [NoProps EXCEPT !.to = par, !.config = cfg,
                                             !.immediate = imm],
                   !.range = [to |-> par, from |-> Und],
                   !.origin = 1, !.stage = "merged", !.reached = TRUE]

\* The positions a channel of the parent may have: a number and NaN.
ParentPositions == {Unit, NaN}

\* The parents: a number or an array of two numbers, every channel done
\* or not.
Parents ==
    { Parent("num", v, d) : v \in [1..1 -> ParentPositions],
                            d \in [1..1 -> BOOLEAN] }
    \cup { Parent("arr", v, d) : v \in [1..2 -> ParentPositions],
                                 d \in [1..2 -> BOOLEAN] }

ChildConfigs == {"dur2", "stiff", "loose"}

InitChild ==
    \E par \in Parents, cfg \in ChildConfigs, imm \in BOOLEAN :
        /\ spring = ChildOf(par, cfg, imm, [i \in 1..Len(par.v) |-> 0])
        /\ state = InitState
        /\ calls = [i \in CallIds |->
                       IF i = 1 THEN ChildCall(par, cfg, imm) ELSE NoCall]
        /\ frameLoop = TRUE
        /\ events = <<>>
        /\ hist = InitHist

\* The `to` of `e` follows the parent it refers to.
Follow(e, par) == IF IsParent(e.to) THEN [e EXCEPT !.to = par] ELSE e

\* The parent is advanced by its own frames: a channel that is not done
\* gets a position and may become done.  The child has no observers, so
\* it is not attached to the parent (lines 798-807) and is not told.
ParentStep ==
    /\ IsParent(spring.to)
    /\ \E i \in 1..Len(spring.to.v), p \in ParentPositions, d \in BOOLEAN :
          /\ ~spring.to.done[i]
          /\ spring' =
               [spring EXCEPT
                  !.to = [@ EXCEPT !.v[i] = p, !.done[i] = d],
                  !.onRest =
                     [j \in 1..Len(@) |->
                         Follow(@[j], [spring.to EXCEPT !.v[i] = p,
                                                        !.done[i] = d])]]
    /\ events' = << <<"parent">> >>
    /\ UNCHANGED <<state, calls, frameLoop, hist>>

NextChild ==
    \/ \E dt \in DtSet, loopRet \in BOOLEAN : Frame(dt, loopRet)
    \/ ParentStep

SpecChild == InitChild /\ [][NextChild]_vars

\* An animation with a handler, a delayed update, and a cancel that carries
\* a range, a config and the default flag as well.
CancelProps ==
    { [NoProps EXCEPT !.to = V1, !.from = V0, !.config = "dur2",
                      !.onRest = TRUE],
      [NoProps EXCEPT !.to = V2, !.config = "dur2", !.delay = 1],
      [NoProps EXCEPT !.cancel = TRUE, !.to = V2, !.from = V0,
                      !.config = "stiff", !.default = TRUE,
                      !.onRest = TRUE] }

NextCancel == NextOver(CancelProps)

SpecCancel == Init /\ [][NextCancel]_vars

\* An array whose second channel is at its goal from the start, a number,
\* and a delayed update; the handlers are defined.
RestProps ==
    { [NoProps EXCEPT !.to = A1, !.from = Arr(<< 0, Unit >>),
                      !.config = "stiff", !.onStart = TRUE,
                      !.onChange = TRUE, !.onRest = TRUE],
      [NoProps EXCEPT !.to = V1, !.from = V0, !.config = "dur2",
                      !.onStart = TRUE, !.onChange = TRUE, !.onRest = TRUE],
      [NoProps EXCEPT !.to = V2, !.config = "dur2", !.delay = 1] }

NextRest == NextOver(RestProps)

SpecRest == Init /\ [][NextRest]_vars

\* An animation from 0 to 1, and updates whose goal is the value the
\* animation has after a frame of 1 ms or before its first frame: one of
\* them resets the animation, one changes the velocity of the config; and
\* a delayed update.
Half == Num(Unit \div 2)

GoalProps ==
    { [NoProps EXCEPT !.to = V1, !.from = V0, !.config = "dur2",
                      !.onRest = TRUE],
      [NoProps EXCEPT !.to = Half, !.config = "dur2"],
      [NoProps EXCEPT !.to = V0, !.config = "dur2"],
      [NoProps EXCEPT !.to = Half, !.from = Half, !.config = "dur2"],
      [NoProps EXCEPT !.to = V0, !.config = "kick"],
      [NoProps EXCEPT !.to = V2, !.config = "dur2", !.delay = 1] }

NextGoal == NextOver(GoalProps)

SpecGoal == Init /\ [][NextGoal]_vars

\* An animation from 0 to 1, another goal, an update that only repeats the
\* config, one whose `from` is the goal of the first, and a delayed one.
PostponeProps ==
    { [NoProps EXCEPT !.to = V1, !.from = V0, !.config = "dur2",
                      !.onRest = TRUE],
      [NoProps EXCEPT !.to = V2, !.config = "dur2"],
      [NoProps EXCEPT !.config = "dur2"],
      [NoProps EXCEPT !.from = V1],
      [NoProps EXCEPT !.to = V2, !.config = "dur2", !.delay = 1] }

NextPostpone == NextOver(PostponeProps)

SpecPostpone == Init /\ [][NextPostpone]_vars

\* The four handlers on an update that starts an animation, on one that
\* only repeats the config, on a delayed one and on a cancel; and an update
\* without handlers.
WithHandlers(props) ==
    [props EXCEPT !.onStart = TRUE, !.onChange = TRUE, !.onPause = TRUE,
                  !.onResume = TRUE]

HandlerProps ==
    { WithHandlers([NoProps EXCEPT !.to = V1, !.from = V0,
                                   !.config = "dur2"]),
      WithHandlers([NoProps EXCEPT !.config = "dur2"]),
      WithHandlers([NoProps EXCEPT !.to = V2, !.config = "dur2",
                                   !.delay = 1]),
      WithHandlers([NoProps EXCEPT !.cancel = TRUE]),
      [NoProps EXCEPT !.to = V2, !.config = "dur2"] }

NextHandler == NextOver(HandlerProps)

SpecHandler == Init /\ [][NextHandler]_vars

\* An immediate update and an animated one, both with the onStart and
\* onRest handlers, and a delayed update.
ImmediateProps ==
    { [NoProps EXCEPT !.to = V1, !.from = V0, !.immediate = TRUE,
                      !.onStart = TRUE, !.onRest = TRUE],
      [NoProps EXCEPT !.to = V2, !.config = "dur2", !.onStart = TRUE,
                      !.onRest = TRUE],
      [NoProps EXCEPT !.to = V2, !.config = "dur2", !.delay = 1] }

NextImmediate == NextOver(ImmediateProps)

SpecImmediate == Init /\ [][NextImmediate]_vars

\* Updates with an onStart handler: one with `from` (a reset), one without,
\* and a delayed one.
OnStartProps ==
    { [NoProps EXCEPT !.to = V1, !.from = V0, !.config = "dur2",
                      !.onStart = TRUE],
      [NoProps EXCEPT !.to = V2, !.config = "dur2", !.onStart = TRUE],
      [NoProps EXCEPT !.to = V2, !.config = "dur2", !.delay = 1,
                      !.onStart = TRUE] }

NextOnStart == NextOver(OnStartProps)

SpecOnStart == Init /\ [][NextOnStart]_vars

(* ------------------------ the precedence rule ------------------------- *)

\* The call defines `to` or `from`, or `to`, and is no cancel.
DefinesRange(c) ==
    ~c.props.cancel /\ (~IsUnd(c.range.to) \/ ~IsUnd(c.range.from))

DefinesTo(c) == ~c.props.cancel /\ ~IsUnd(c.range.to)

\* The call reaches `_merge` in this step.
ReachesMerge(id) == ~calls[id].reached /\ calls'[id].reached

\* The to-defining calls with a greater callId than `a` that reached `_merge`.
LaterMerged(cs, a) ==
    {b \in CallIds : b > a /\ cs[b].reached /\ DefinesTo(cs[b])}

\* C1: when a to-defining update reaches `_merge` after a to-defining update
\* with a greater callId did (a delayed A whose timer expires after B was
\* merged), it resolves as cancelled and the goal `animation.to` is not
\* changed; when it reaches `_merge` with the greatest callId of all merged
\* to-defining updates, the goal becomes its `to`.  So the goal is decided by
\* the callIds, not by the order of the merges.
C1_LatestGoalWins ==
    [][\A a \in CallIds :
          (ReachesMerge(a) /\ DefinesTo(calls'[a])) =>
              /\ LaterMerged(calls, a) # {} =>
                    /\ calls'[a].stage = "resolved"
                    /\ calls'[a].result.cancelled
                    /\ spring'.to = spring.to
                    /\ spring'.toValues = spring.toValues
              /\ LaterMerged(calls', a) = {} =>
                    spring'.to = calls'[a].range.to]_vars

\* C1 witness: the timer of the delayed call 1 expired after call 2, with
\* another `to` and no delay, was merged: call 1 is cancelled and the goal is
\* the `to` of call 2.
C1_Witness ==
    /\ events # <<>> /\ events[1] = <<"timer", 1>>
    /\ calls[1].props.delay > 0 /\ DefinesTo(calls[1])
    /\ calls[2].props.delay = 0 /\ DefinesTo(calls[2])
    /\ calls[2].range.to # calls[1].range.to
    /\ calls[1].reached /\ calls[1].result.cancelled
    /\ calls[3].stage = "unused"
    /\ spring.to = calls[2].range.to

\* C2: an update that defines `to` or `from` and reaches `_merge` with a
\* callId greater than `_lastToId` raises `_lastToId` to its callId; with a
\* callId that is not greater it resolves as cancelled, once, with no error,
\* and when it is the only update merged in the step the animation, the
\* default props and the counters are left as they were.
C2_Precedence ==
    [][\A id \in CallIds :
          (ReachesMerge(id) /\ DefinesRange(calls'[id])) =>
              IF id > calls'[id].seen
              THEN /\ spring'.lastToId >= id
                   /\ LaterMerged(calls', id) = {} => spring'.lastToId = id
              ELSE /\ calls'[id].stage = "resolved"
                   /\ calls'[id].result.cancelled
                   /\ calls'[id].resolves = 1
                   /\ \A i \in 1..Len(events') : events'[i][1] # "throw"
                   /\ (\A o \in CallIds \ {id} :
                           calls'[o].reached = calls[o].reached)
                      => spring' = spring]_vars

\* C2 witness: a call found a `_lastToId` that is not smaller than its
\* callId when its timer expired, and was cancelled.
C2_Witness ==
    \E id \in CallIds :
        /\ events # <<>> /\ events[1] = <<"timer", id>>
        /\ calls[id].reached /\ DefinesRange(calls[id])
        /\ calls[id].seen >= id
        /\ calls[id].result.cancelled
        /\ spring.lastToId = calls[id].seen

(* ------------------------- stop and the queue ------------------------- *)

\* The calls whose resolver is an entry of the onRest queue `q`.
Resolvers(q) == {q[i].id : i \in {j \in 1..Len(q) : q[j].k = "res"}}

\* How many entries of the onRest queue `q` are the resolver of `id`.
ResolverCount(q, id) ==
    Cardinality({i \in 1..Len(q) : q[i].k = "res" /\ q[i].id = id})

\* The step is the call `tag` (events begin with the name of the call).
IsCall(ev, tag) == ev # <<>> /\ ev[1] = tag

\* C3: a `stop(true)` on an animating value resolves every resolver of the
\* onRest queue as cancelled, once; the value is not animating afterwards,
\* and its node holds the value it held when `stop` was called.
C3_StopCancels ==
    [][(spring.isAnimating /\ IsCall(events', <<"stop", TRUE>>)) =>
          /\ \A id \in Resolvers(spring.onRest) :
                /\ calls'[id].stage = "resolved"
                /\ calls'[id].result.cancelled
                /\ calls'[id].resolves = 1
          /\ ~spring'.isAnimating
          /\ spring'.nodeType = spring.nodeType
          /\ \A i \in 1..Len(spring.values) :
                spring'.values[i].lastPosition = spring.values[i].lastPosition
      ]_vars

\* C3 witness: `stop(true)` cancelled two resolvers of the queue of an
\* animation that was on its way (the value is between its start and goal).
C3_Witness ==
    /\ IsCall(events, <<"stop", TRUE>>)
    /\ \E a, b \in CallIds :
          /\ a < b
          /\ calls[a].reached /\ calls[a].result.cancelled
          /\ calls[b].reached /\ calls[b].result.cancelled
          /\ \E i, j \in 1..Len(events) :
                /\ events[i][1] = "resolve" /\ events[i][2] = a
                /\ events[j][1] = "resolve" /\ events[j][2] = b
    /\ ~spring.isAnimating
    /\ spring.values[1].lastPosition \notin {0, Unit, 2 * Unit}

\* C4 as stated: the resolver of every update fires exactly once (C4
\* below), and the `onRest` handler of every update that has settled with
\* a result of its animation (not a noop, not cancelled) was called
\* exactly once.
C4_HandlerOnce ==
    \A id \in CallIds :
        /\ calls[id].resolves <= 1
        /\ (/\ calls[id].stage = "resolved"
            /\ calls[id].props.onRest
            /\ ~calls[id].result.noop
            /\ ~calls[id].result.cancelled) => hist.onRest[id] = 1

\* C4, amended: the resolver of an update is in the onRest queue exactly
\* while the update is merged and not resolved, it is there once, only
\* while the value is animating, and no resolver is ever called twice.  So
\* a resolver leaves the queue only by being called, and is called once.
\* (The `onRest` handler of an update is not called when the animation is
\* superseded or never changed the value.)
C4_ResolverOnce ==
    \A id \in CallIds :
        /\ calls[id].resolves <= 1
        /\ (calls[id].stage = "resolved") = (calls[id].resolves = 1)
        /\ calls[id].stage = "merged" =>
              /\ ResolverCount(spring.onRest, id) = 1
              /\ spring.isAnimating
        /\ calls[id].stage # "merged" => ResolverCount(spring.onRest, id) = 0

\* C4 witness: the animation of call 2 was superseded by call 3, whose
\* resolver waits in the queue; the resolver of call 2 was called once, as
\* the animation had moved the value, and its `onRest` handler never.
C4_Witness ==
    /\ calls[2].props.onRest /\ calls[2].stage = "resolved"
    /\ calls[2].resolves = 1 /\ ~calls[2].result.cancelled
    /\ ~calls[2].result.noop
    /\ hist.onRest[2] = 0
    /\ Resolvers(spring.onRest) = {3}
    /\ spring.isAnimating /\ spring.changed

(* ---------------------------- no-op updates ---------------------------- *)

\* The step is `start(p)`, called as update `n`, where p has a `to` and
\* a `config`, the update before it had the same props and was the last
\* one merged, has settled, and the value is idle at the goal `to`.
Resubmits(n) ==
    /\ n > 1 /\ spring.lastCallId = n - 1
    /\ IsCall(events', <<"start">>)
    /\ calls'[n].props = calls[n - 1].props
    /\ ~IsUnd(calls'[n].props.to) /\ calls'[n].props.config # "und"
    /\ calls'[n].props.delay = 0
    /\ calls[n - 1].stage = "resolved" /\ hist.merged = n - 1
    /\ ~spring.isAnimating /\ ~spring.isPaused /\ ~state.paused
    /\ Get(World) = calls'[n].props.to

\* C5: an update with the `to` and `config` of the update before it, which
\* has settled with the value idle at that goal, resolves as noop, starts no
\* animation, calls no `onStart` and leaves the value alone.
C5_NoopIdempotent ==
    [][\A n \in CallIds :
          Resubmits(n) =>
              /\ calls'[n].stage = "resolved"
              /\ calls'[n].result.noop
              /\ ~spring'.isAnimating
              /\ hist'.onStart = hist.onStart
              /\ \A i \in 1..Len(events') : events'[i][1] # "onStart"
              /\ spring'.values = spring.values
      ]_vars

\* C5 witness: the update with a velocity was animated to its end, its
\* onStart handler called once; the same update, submitted again, resolved
\* as noop.
C5_Witness ==
    /\ IsCall(events, <<"start">>)
    /\ \E n \in CallIds \ {1} :
          /\ spring.lastCallId = n /\ hist.merged = n
          /\ calls[n].props = calls[n - 1].props
          /\ calls[n].props.config = "kick"
          /\ calls[n - 1].result.finished /\ ~calls[n - 1].result.noop
          /\ hist.onStart[n - 1] = 1 /\ hist.ended > 0
          /\ calls[n].stage = "resolved" /\ calls[n].result.noop
          /\ hist.onStart[n] = 0
    /\ ~spring.isAnimating

(* -------------------------- pause and resume --------------------------- *)

\* The step is a frame.
IsFrame(ev) == ev # <<>> /\ ev[1][1] = "frame"

\* What `advance` reads of the animation: the nodes (position, velocity,
\* elapsed time, done), the goal, the start, the config and `immediate`.
Channels(sv) ==
    [values |-> sv.values, toValues |-> sv.toValues,
     fromValues |-> sv.fromValues, to |-> sv.to, config |-> sv.config,
     immediate |-> sv.immediate, changed |-> sv.changed]

\* Only `pause()` calls wait for `resume`.
OnlyPauses ==
    \A i \in 1..Len(state.resumeQueue) :
        calls[state.resumeQueue[i]].props = [NoProps EXCEPT !.pause = "true"]

\* C6, the frames: a frame leaves the value and the channels of a paused
\* animation as they are, and the animation paused.
C6_PauseFreezes ==
    [][(spring.isAnimating /\ spring.isPaused /\ IsFrame(events')) =>
          /\ Channels(spring') = Channels(spring)
          /\ spring'.isAnimating /\ spring'.isPaused
          /\ Len(events') = 1
      ]_vars

\* C6, `resume()`: when only `pause()` calls wait, `resume()` leaves the
\* channels of the paused animation as they are and puts the value back
\* in the frame loop, so the next frame advances from the frozen state.
C6_ResumeContinues ==
    [][(spring.isAnimating /\ spring.isPaused /\ OnlyPauses
        /\ IsCall(events', <<"resume">>)) =>
          /\ Channels(spring') = Channels(spring)
          /\ spring'.isAnimating /\ ~spring'.isPaused
          /\ frameLoop'
      ]_vars

(* -------------------------------- loops -------------------------------- *)

\* The update of the call is `loop: true, to: 1, from: 0`.
LoopTrue(c) ==
    c.props.loop = "true" /\ c.props.to = V1 /\ c.props.from = V0

\* The call gets its result in this step.
Settles(id) == calls[id].stage # "resolved" /\ calls'[id].stage = "resolved"

\* The result of the call lets `_update` continue a loop (line 512).
Continues(c) == c.result.finished /\ ~(c.isLoop /\ c.result.noop)

\* The loop predicate of the call returned a falsy value in this step.
LoopEnded(ev, id) == \E i \in 1..Len(ev) : ev[i] = <<"loopEnd", id>>

C8_AlwaysResubmitted ==
    [][\A id \in CallIds :
          (calls'[id].props.loop # "und" /\ Settles(id)
           /\ ~LoopEnded(events', id)) => calls'[id].next # 0
      ]_vars

\* C8, amended: a looping update that gets its result is not submitted
\* again exactly when the result is not finished, or is the noop of a
\* continuation, or the loop predicate returned a falsy value; the
\* predicate is asked for finished results only.
C8_ResubmittedIfFinished ==
    [][\A id \in CallIds :
          (calls'[id].props.loop # "und" /\ Settles(id)) =>
              /\ (calls'[id].next = 0) =
                    (~Continues(calls'[id]) \/ LoopEnded(events', id))
              /\ LoopEnded(events', id) =>
                    Continues(calls'[id]) /\ calls'[id].props.loop = "fn"
      ]_vars

\* C8 witness: the predicate was truthy after the first cycle and falsy
\* after the second, which ended the loop.
C8_Witness ==
    /\ calls[1].props.loop = "fn" /\ calls[1].next = 2
    /\ calls[2].isLoop /\ calls[2].stage = "resolved"
    /\ calls[2].result.finished /\ calls[2].next = 0
    /\ LoopEnded(events, 2)
    /\ ~spring.isAnimating

(* --------------------------- type mismatch ----------------------------- *)

\* The step is a `start` whose update was merged at once and whose
\* `_merge` threw, and nothing else happened in it.
Throws(n) ==
    /\ spring.lastCallId = n - 1
    /\ events' = << <<"start">>, <<"throw", n>> >>

\* C10: when `_merge` throws for an update that is not immediate and asks
\* for a `to` of another node type, the update is rejected and the
\* animation's `to`, `from`, config, the default props and `_lastToId`
\* are what they were before the call.
C10_NoPartialMutation ==
    [][\A n \in CallIds :
          Throws(n) =>
              /\ calls'[n].stage = "rejected"
              /\ ~calls'[n].props.immediate
              /\ getAnimatedType(calls'[n].range.to) # spring.nodeType
              /\ spring'.to = spring.to
              /\ spring'.from = spring.from
              /\ spring'.config = spring.config
              /\ spring'.defaultProps = spring.defaultProps
              /\ spring'.lastToId = spring.lastToId
      ]_vars

\* What does hold when `_merge` throws: the update is rejected, it was not
\* immediate and its `to` has another node type than the value, and the
\* node, the running animation and its queue are what they were.
C10_ThrowKeepsNode ==
    [][\A n \in CallIds :
          Throws(n) =>
              /\ calls'[n].stage = "rejected"
              /\ ~calls'[n].props.immediate
              /\ getAnimatedType(calls'[n].range.to) # spring.nodeType
              /\ spring'.nodeType = spring.nodeType
              /\ spring'.values = spring.values
              /\ spring'.toValues = spring.toValues
              /\ spring'.onRest = spring.onRest
              /\ spring'.isAnimating = spring.isAnimating
      ]_vars

(* ----------------------------- resolution ------------------------------ *)

\* The update is submitted and has no result yet; it has a result or was
\* rejected.
Pending(c) == c.stage \in {"waiting", "merged"}

Settled(c) == c.stage \in {"resolved", "rejected"}

\* The update waits in the resume queue.
Suspended(id) ==
    \E i \in 1..Len(state.resumeQueue) : state.resumeQueue[i] = id

Fires(ev, name, id) ==
    \E i \in 1..Len(ev) : ev[i][1] = name /\ ev[i][2] = id

\* The events `ev` hold a call of some handler `name`.
FiresAny(ev, name) == \E i \in 1..Len(ev) : ev[i][1] = name

\* The entry `e` of an onRest queue was called in the step: a handler was
\* called once more, a resolver settled its update.
EntryFired(e) ==
    CASE e.k = "prop" -> /\ hist'.onRest[e.id] = hist.onRest[e.id] + 1
                         /\ Fires(events', "onRest", e.id)
      [] e.k = "res"  -> /\ calls'[e.id].stage = "resolved"
                         /\ Fires(events', "resolve", e.id)
      [] OTHER        -> TRUE

\* C11: `finish()` on an animating value calls `onStart` exactly when it
\* was not called yet since the value became active (`changed` is unset),
\* moves every channel to the goal unless the config is a decay, in which
\* case no channel moves, calls every entry of the onRest queue and leaves
\* the value not animating; `finish()` on a value that is not animating
\* changes nothing and calls no handler.
C11_Finish ==
    [][IsCall(events', <<"finish">>) =>
          IF spring.isAnimating
          THEN /\ Fires(events', "onStart", spring.onStart)
                    = (~spring.changed /\ spring.onStart # 0)
               /\ ~spring.config.decay =>
                     /\ spring'.nodeType = spring.to.t
                     /\ \A i \in 1..Len(spring'.values) :
                           spring'.values[i].lastPosition = spring.to.v[i]
               /\ spring.config.decay =>
                     \A i \in 1..Len(spring.values) :
                        spring'.values[i].lastPosition
                            = spring.values[i].lastPosition
               /\ \A i \in 1..Len(spring.onRest) : EntryFired(spring.onRest[i])
               /\ ~spring'.isAnimating
          ELSE /\ events' = << <<"finish">> >>
               /\ UNCHANGED <<spring, state, calls, frameLoop, hist>>
      ]_vars

\* C11 witness: `finish()` ended a decay animation that had not called
\* `onStart`: the handlers of the update were called, the update is
\* resolved, and the value is where it was, away from the goal.
C11_Witness ==
    /\ IsCall(events, <<"finish">>)
    /\ spring.config.decay /\ ~spring.isAnimating
    /\ \E id \in CallIds :
          /\ Fires(events, "onStart", id)
          /\ Fires(events, "onRest", id)
          /\ Fires(events, "resolve", id)
    /\ Get(World) # spring.to

(* ----------------------- the order of the queue ----------------------- *)

\* The calls of onRest entries in the events `ev`, in order: the handler
\* ("onRest") or the resolver ("resolve") of an update.
Fired(ev) ==
    LET s == SelectSeq(ev, LAMBDA e : e[1] \in {"onRest", "resolve"})
    IN [i \in 1..Len(s) |-> << s[i][1], s[i][2] >>]

\* The calls the entries of the queue `q` make, from the entry `first` on.
QueueCalls(q, first) ==
    LET s == SelectSeq(SubSeq(q, first, Len(q)), LAMBDA e : e.k # "noop")
    IN [i \in 1..Len(s) |->
           << IF s[i].k = "prop" THEN "onRest" ELSE "resolve", s[i].id >>]

\* The update `id` is merged in the step and starts an animation: its
\* resolver is the second of two entries of the new queue.
StartsAnimation(id) ==
    /\ calls[id].stage # "merged"
    /\ calls'[id].stage = "merged"
    /\ Len(spring'.onRest) = 2
    /\ spring'.onRest[2].k = "res" /\ spring'.onRest[2].id = id

\* The `reset` that `_merge` computes for the update `c` (no `reverse`).
IsReset(c) ==
    IF c.props.reset = "und"
    THEN ~IsUnd(c.range.from) /\ ~c.props.default
    ELSE /\ c.props.reset = "true"
         /\ ~IsUnd(c.range.from) \/ ~IsUnd(spring.from)

\* The step is one call of `start` or `reset`, or one expired timer, on a
\* value that is not paused: at most one update is merged in it.
OneMerge ==
    /\ ~state.paused
    /\ events' # <<>>
    /\ events'[1][1] \in {"start", "reset", "timer"}

\* The step ends the animation by `finish` or by a frame.
EndsAtRest ==
    /\ spring.isAnimating /\ ~spring'.isAnimating
    /\ events' # <<>>
    /\ events'[1][1] \in {"finish", "frame"}

Positions(sv) == [i \in 1..Len(sv.values) |-> sv.values[i].lastPosition]

\* C13 as stated: a frame that advances a value whose config has a tension
\* of 0 or less changes the position of no channel.
C13_LooseNeverMoves ==
    [][(IsFrame(events') /\ spring.config.tension <= 0) =>
          Positions(spring') = Positions(spring)]_vars

(* ------------------------- springs come to rest ------------------------ *)

\* The animation of `sv` is in spring mode: tension above 0, no duration,
\* no decay, not immediate.
SpringMode(sv) ==
    /\ sv.config.tension > 0
    /\ sv.config.duration = None
    /\ ~sv.config.decay
    /\ ~sv.immediate

\* What the spring branch of `advance` carries from call to call: the
\* position and the velocity of every channel.
Motion(sv) ==
    [i \in 1..Len(sv.values) |->
        << sv.values[i].lastPosition, sv.values[i].lastVelocity >>]

\* C14 as stated: repeated `advance` calls make a value in spring mode
\* idle.  So no `advance` call leaves a running spring as it found it, the
\* same position and velocity in every channel and still animating: the
\* same call, repeated, would find and leave it so for ever.
C14_SpringRests ==
    [][(/\ IsFrame(events')
        /\ spring.isAnimating /\ ~spring.isPaused
        /\ SpringMode(spring)
        /\ spring'.isAnimating)
          => Motion(spring') # Motion(spring)]_vars

(* ------------------------- children and parents ------------------------ *)

\* The channels of the parent of `sv` that are not done.
Unfinished(sv) ==
    IF IsParent(sv.to) THEN {i \in 1..Len(sv.to.done) : ~sv.to.done[i]}
    ELSE {}

\* C15 as stated: a frame marks no channel of a child done whose parent
\* channel is not done, and does not end the animation of a child while a
\* parent channel is not done.
C15_ChildWaits ==
    [][(IsFrame(events') /\ spring.isAnimating) =>
          /\ \A i \in Unfinished(spring) :
                ~spring.values[i].done => ~spring'.values[i].done
          /\ Unfinished(spring) # {} => spring'.isAnimating
      ]_vars

(* -------------------------------- NaN --------------------------------- *)

\* The frame advanced the value and left it animating, and gave channel i,
\* which was not done, the position NaN.
GotNaN(i) ==
    /\ IsFrame(events')
    /\ spring.isAnimating /\ ~spring.isPaused
    /\ spring'.isAnimating
    /\ ~spring.values[i].done
    /\ spring'.values[i].lastPosition = NaN

\* C16 as stated: a channel whose position is NaN after an `advance` call
\* is done after that call.
C16_NaNDone ==
    [][\A i \in 1..Len(spring.values) :
          GotNaN(i) => spring'.values[i].done]_vars

\* C16, amended: a channel whose position is NaN after an `advance` call
\* is done after that call unless the target is a parent whose channel i
\* is not done, and then it is not done; the channels that are not done
\* and not immediate or loose have advanced by the time of the frame; and
\* a frame leaves the value animating only if a channel is not done, else
\* it ends the animation and calls every resolver of the queue.
C16_NaNDoneUnlessParent ==
    [][/\ \A i \in 1..Len(spring.values) :
             GotNaN(i) =>
                /\ spring'.values[i].done = ~Waits(spring, i)
                /\ \A j \in 1..Len(spring.values) :
                      (/\ ~spring.values[j].done
                       /\ ~spring.immediate
                       /\ spring.config.tension > 0) =>
                          spring'.values[j].elapsedTime =
                              spring.values[j].elapsedTime + events'[1][2]
       /\ (IsFrame(events') /\ spring.isAnimating /\ ~spring.isPaused) =>
             IF spring'.isAnimating
             THEN \E j \in 1..Len(spring'.values) : ~spring'.values[j].done
             ELSE \A id \in Resolvers(spring.onRest) :
                     calls'[id].stage = "resolved"
      ]_vars

\* C16 witness: channel 1 of a child got NaN in the first frame and was
\* done, channel 2 went on for another frame, and the frame that made it
\* done ended the animation and resolved the update.
C16_Witness ==
    /\ IsFrame(events)
    /\ ~spring.isAnimating
    /\ calls[1].stage = "resolved" /\ ~calls[1].result.cancelled
    /\ Len(spring.values) = 2
    /\ spring.values[1].lastPosition = NaN
    /\ spring.values[1].elapsedTime = 1
    /\ spring.values[2].elapsedTime = 2
    /\ spring.values[2].lastPosition = Unit

(* ------------------------------- callIds ------------------------------ *)

\* The callIds under which the step scheduled an update.
NewCalls ==
    {id \in CallIds : calls[id].stage = "unused" /\ calls'[id].stage # "unused"}

\* The update that was scheduled under `id`.
Submitted(c) ==
    [props |-> c.props, range |-> c.range, isLoop |-> c.isLoop,
     origin |-> c.origin]

\* The step is a public call that submits an update.
Submits ==
    /\ events' # <<>>
    /\ events'[1][1] \in {"start", "pause", "resume", "reset"}

\* C17: the updates a step schedules get the callIds that follow
\* `_lastCallId`, one each, the update of the public call first and the
\* continuation of a loop after the update it continues; the counter is
\* the last callId given; an update keeps its callId, no callId is given
\* to another update later, and the callIds in use are those up to the
\* counter.
C17_CallIdsIncrease ==
    [][/\ NewCalls = (spring.lastCallId + 1)..spring'.lastCallId
       /\ \A id \in CallIds \ NewCalls :
             Submitted(calls'[id]) = Submitted(calls[id])
       /\ Submits => /\ spring.lastCallId + 1 \in NewCalls
                     /\ ~calls'[spring.lastCallId + 1].isLoop
       /\ \A id \in CallIds :
             calls'[id].next # calls[id].next =>
                /\ calls[id].next = 0
                /\ calls'[id].next \in NewCalls
                /\ calls'[id].next > id
                /\ calls'[calls'[id].next].isLoop
       /\ \A id \in CallIds :
             (calls'[id].stage # "unused") = (id <= spring'.lastCallId)
      ]_vars

\* C17 witness: three updates in submission order: a looping `start`, its
\* continuation, submitted when the first was resolved, and a `pause()`.
C17_Witness ==
    /\ spring.lastCallId = 3
    /\ calls[1].props.loop # "und" /\ ~calls[1].isLoop /\ calls[1].next = 2
    /\ calls[2].isLoop /\ calls[2].origin = 1
    /\ calls[3].props.pause = "true"
    /\ IsCall(events, <<"pause">>)

(* ------------------------------- cancel ------------------------------- *)

\* The update this step submitted is a cancel.
Cancels ==
    /\ spring'.lastCallId = spring.lastCallId + 1
    /\ calls'[spring'.lastCallId].props.cancel

\* The Animation record but its `to` and its onRest queue, with the
\* default props and `_lastToId`.
Merged(sv) ==
    [from |-> sv.from, toValues |-> sv.toValues,
     fromValues |-> sv.fromValues, immediate |-> sv.immediate,
     config |-> sv.config, onStart |-> sv.onStart, onChange |-> sv.onChange,
     onPause |-> sv.onPause, onResume |-> sv.onResume,
     defaultProps |-> sv.defaultProps, lastToId |-> sv.lastToId,
     changed |-> sv.changed, isPaused |-> sv.isPaused]

\* C18: an update with `cancel` set is merged in the call that submits it,
\* paused or not.  It leaves the value not animating, every resolver of the
\* onRest queue and every waiting update resolved as cancelled and no timer
\* running; it resolves as cancelled itself and is not rejected; it leaves
\* `_lastToId`, the from value, the config, the handlers and the default
\* props as they were, whatever other props it carries, and the `to` value
\* is the value the node holds (as after `stop`).  The node of a value that
\* has animated keeps its value.
C18_CancelStops ==
    [][Cancels =>
          /\ ~spring'.isAnimating
          /\ \A id \in Resolvers(spring.onRest) :
                /\ calls'[id].stage = "resolved"
                /\ calls'[id].result.cancelled
                /\ calls'[id].resolves = 1
          /\ \A id \in CallIds :
                calls[id].stage = "waiting" =>
                   calls'[id].stage = "resolved" /\ calls'[id].result.cancelled
          /\ state'.timeouts = {}
          /\ calls'[spring'.lastCallId].stage = "resolved"
          /\ calls'[spring'.lastCallId].result.cancelled
          /\ calls'[spring'.lastCallId].reached
          /\ calls'[spring'.lastCallId].seen = spring.lastToId
          /\ ~FiresAny(events', "throw")
          /\ Merged(spring') = Merged(spring)
          /\ Resolvers(spring'.onRest) = {}
          /\ spring'.nodeType # "none" =>
                spring'.to = [t |-> spring'.nodeType, v |-> Positions(spring')]
          /\ spring.hasAnimated =>
                /\ spring'.nodeType = spring.nodeType
                /\ Positions(spring') = Positions(spring)
      ]_vars

\* C18 witness: a cancel that carries `to`, `from` and a config stopped an
\* animation that was on its way from 0 to 1, and cancelled its resolver
\* and a delayed update with it.
C18_Witness ==
    /\ IsCall(events, <<"start">>)
    /\ calls[3].props.cancel /\ calls[3].props.to = V2
    /\ calls[3].stage = "resolved" /\ calls[3].result.cancelled
    /\ calls[2].props.delay = 1 /\ ~calls[2].reached
    /\ calls[2].result.cancelled
    /\ calls[1].reached /\ calls[1].result.cancelled
    /\ Fires(events, "resolve", 1) /\ Fires(events, "resolve", 2)
    /\ ~spring.isAnimating /\ spring.lastToId = 1
    /\ spring.values[1].lastPosition \notin {0, Unit, 2 * Unit}

(* ------------------------- the end of a frame -------------------------- *)

\* The step is an `advance(dt)` of the frame loop.
Advances == \E dt \in DtSet : IsCall(events', <<"frame", dt>>)

\* Every channel of `sv` is done.
AllDone(sv) == \A i \in 1..Len(sv.values) : sv.values[i].done

\* The events `ev` after the first hold calls of `onStart` and `onChange`
\* only.
OnlyChange(ev) ==
    \A i \in 2..Len(ev) : ev[i][1] \in {"onStart", "onChange"}

\* C19: an `advance` that leaves every channel done leaves the value not
\* animating and calls every entry of the onRest queue in the same call.
\* An `advance` that leaves a channel not done leaves the value animating
\* and the onRest queue and every update as they were; it calls `onChange`
\* at most once, and only when a channel moved, and before it `onStart`
\* when this is the first change of the animation.
C19_AdvanceRests ==
    [][Advances =>
          IF AllDone(spring')
          THEN /\ ~spring'.isAnimating
               /\ \A i \in 1..Len(spring.onRest) : EntryFired(spring.onRest[i])
          ELSE /\ spring'.isAnimating
               /\ spring'.onRest = spring.onRest
               /\ calls' = calls
               /\ hist'.onRest = hist.onRest
               /\ OnlyChange(events')
               /\ Len(events') <= 3
               /\ Len(events') > 1 => Positions(spring') # Positions(spring)
               /\ Fires(events', "onStart", spring.onStart)
                     = (/\ ~spring.changed /\ spring.onStart # 0
                        /\ Positions(spring') # Positions(spring))
               /\ Fires(events', "onChange", spring.onChange)
                     = (/\ spring.onChange # 0
                        /\ Positions(spring') # Positions(spring))
      ]_vars

\* C19 witness: a frame finished the second channel of an array and moved
\* the first, which is not done: the value is animating, `onStart` and
\* `onChange` were called and no entry of the queue.
C19_Witness ==
    /\ IsCall(events, <<"frame", 1>>)
    /\ spring.nodeType = "arr" /\ spring.isAnimating
    /\ ~spring.values[1].done /\ spring.values[2].done
    /\ FiresAny(events, "onStart") /\ FiresAny(events, "onChange")
    /\ ~FiresAny(events, "onRest") /\ ~FiresAny(events, "resolve")
    /\ Len(spring.onRest) = 2

(* --------------------- a goal that is reached already ------------------ *)

\* The step is a `start` whose update `id` is merged in it, on an animating
\* value, with a `to` that differs from the goal of the animation.
Retargets(id) ==
    /\ IsCall(events', <<"start">>)
    /\ id = spring.lastCallId + 1
    /\ spring'.lastCallId = id
    /\ calls'[id].reached
    /\ ~calls'[id].props.cancel
    /\ spring.isAnimating
    /\ ~IsUnd(calls'[id].range.to)
    /\ calls'[id].range.to # spring.to

\* The value `_merge` compares the goal with: the from value under a
\* reset, the current value otherwise.
ValueOf(c) ==
    IF IsReset(c)
    THEN IF ~IsUnd(c.range.from) THEN c.range.from ELSE spring.from
    ELSE Get(World)

\* The step changed the decay or the velocity of the config.
ConfigMoved ==
    \/ spring'.config.decay # spring.config.decay
    \/ spring'.config.velocity # spring.config.velocity

\* The update `id` restarted the animation: it waits in the queue of the
\* animation, whose channels start over towards its `to`.
Restarted(id) ==
    /\ spring'.isAnimating
    /\ spring'.to = calls'[id].range.to
    /\ calls'[id].stage = "merged"
    /\ Resolvers(spring'.onRest) = {id}
    /\ \A i \in 1..Len(spring'.values) :
          ~spring'.values[i].done /\ spring'.values[i].elapsedTime = 0

\* The update `id` stopped the animation in `_merge`: the animation has
\* ended, every update that waited for it is resolved and not cancelled,
\* and the update is resolved as a noop.
StoppedAtOnce(id) ==
    /\ ~spring'.isAnimating
    /\ hist'.ended = hist.ended + 1
    /\ \A r \in Resolvers(spring.onRest) :
          calls'[r].stage = "resolved" /\ ~calls'[r].result.cancelled
    /\ calls'[id].stage = "resolved"
    /\ calls'[id].result.noop
    /\ Fires(events', "resolve", id)

\* C20 as stated: an update that changes the goal of an active animation
\* to the value the node holds restarts the animation when `changed` is
\* set, and stops it at once and is resolved when `changed` is not set.
C20_GoalIsCurrent ==
    [][\A id \in CallIds :
          (/\ Retargets(id)
           /\ calls'[id].range.to = Get(World)
           /\ calls'[id].range.to = ValueOf(calls'[id])) =>
             IF spring.changed THEN Restarted(id) ELSE StoppedAtOnce(id)
      ]_vars

\* C20, amended: an update that changes the goal of an active animation to
\* the value `_merge` compares it with (the from value under a reset, the
\* current value otherwise) restarts the animation when `changed` is set
\* and the update is no reset, or when the update changes the decay or the
\* velocity of the config; in every other case it stops the animation at
\* once and is resolved as a noop.
C20_GoalIsValue ==
    [][\A id \in CallIds :
          (/\ Retargets(id)
           /\ calls'[id].range.to = ValueOf(calls'[id])) =>
             IF (spring.changed /\ ~IsReset(calls'[id])) \/ ConfigMoved
             THEN Restarted(id)
             ELSE StoppedAtOnce(id)
      ]_vars

\* C20 witness: the second update asked for the value the animation of the
\* first had reached after a frame; the animation was restarted at that
\* value, `changed` still set, and the first update is resolved.
C20_Witness ==
    /\ IsCall(events, <<"start">>)
    /\ spring.lastCallId = 2
    /\ calls[2].props.to = Half /\ IsUnd(calls[2].props.from)
    /\ calls[2].stage = "merged"
    /\ spring.isAnimating /\ spring.changed
    /\ spring.to = Half /\ Get(World) = Half
    /\ spring.values[1].elapsedTime = 0 /\ ~spring.values[1].done
    /\ Fires(events, "resolve", 1) /\ ~calls[1].result.cancelled

(* -------------------------- postponed updates -------------------------- *)

\* The update `id` reaches `_merge` in the step.
MergedNow(id) == ~calls[id].reached /\ calls'[id].reached

\* The value of the node of `sv`.
CurrentValue(sv) ==
    IF sv.nodeType = "none" THEN Und
    ELSE [t |-> sv.nodeType, v |-> Positions(sv)]

\* The update `id` is postponed: it is not resolved, and its resolver is
\* the last entry of the onRest queue, behind those of the animation.
Postponed(id) ==
    /\ calls'[id].stage = "merged"
    /\ calls'[id].resolves = 0
    /\ Len(spring'.onRest) >= 3
    /\ spring'.onRest[Len(spring'.onRest)].k = "res"
    /\ spring'.onRest[Len(spring'.onRest)].id = id
    /\ ~Fires(events', "resolve", id)

\* The update `id` is resolved as a noop with the value of the node.
NoopNow(id) ==
    /\ calls'[id].stage = "resolved"
    /\ calls'[id].result.noop
    /\ \E i \in 1..Len(events') :
          events'[i] = <<"resolve", id, "noop", TRUE, CurrentValue(spring')>>

\* The update `id` is merged in the step, alone, and neither starts an
\* animation nor is cancelled or rejected.
MergedIdle(id) ==
    /\ OneMerge
    /\ MergedNow(id)
    /\ ~StartsAnimation(id)
    /\ ~calls'[id].result.cancelled
    /\ calls'[id].stage # "rejected"

\* The postponed resolvers of the queue `q` (those behind the resolver of
\* the update that started the animation) that settle in the step.
PostponedFired(q) ==
    {q[i].id : i \in {j \in 3..Len(q) :
                         /\ q[j].k = "res"
                         /\ calls[q[j].id].stage = "merged"
                         /\ calls'[q[j].id].stage = "resolved"}}

\* The postponed resolvers of the queue `q`.
PostponedIn(q) == {q[i].id : i \in {j \in 3..Len(q) : q[j].k = "res"}}

\* C21 as stated: an update that starts no animation and finds an
\* animation active and the `to` value unchanged is postponed, and in every
\* other case it is resolved at once as a noop with the current value; a
\* postponed update is resolved only in a step that ends the animation.
C21_PostponedUntilRest ==
    [][/\ \A id \in CallIds :
             MergedIdle(id) =>
                IF spring.isAnimating /\ spring'.to = spring.to
                THEN Postponed(id)
                ELSE NoopNow(id)
       /\ PostponedFired(spring.onRest) # {} => hist'.ended > hist.ended
      ]_vars

\* C21, amended: an update that reaches the end of `_merge` (the node
\* exists and `to` is defined) without starting an animation is postponed
\* when the value is animating after the merge and the `to` value is
\* unchanged, and is resolved at once as a noop with the current value
\* otherwise; an update merged without a node or a `to` value is resolved
\* at once as finished.  A postponed update is resolved in the step that
\* ends the animation, or in the step in which another update starts an
\* animation, whichever comes first, and in no other step.
C21_PostponedUntilNext ==
    [][/\ \A id \in CallIds :
             MergedIdle(id) =>
                IF spring'.nodeType = "none" \/ IsUnd(spring'.to)
                THEN /\ calls'[id].stage = "resolved"
                     /\ ~calls'[id].result.noop
                     /\ calls'[id].result.finished
                ELSE IF spring'.isAnimating /\ spring'.to = spring.to
                THEN Postponed(id)
                ELSE NoopNow(id)
       /\ IF \/ hist'.ended > hist.ended
             \/ \E n \in CallIds : StartsAnimation(n)
          THEN PostponedFired(spring.onRest) = PostponedIn(spring.onRest)
          ELSE PostponedFired(spring.onRest) = {}
      ]_vars

\* C21 witness: the second update only repeated the config while the
\* animation of the first was active and was postponed; the third starts
\* an animation to another goal, which resolved the first two although the
\* value has not stopped animating.
C21_Witness ==
    /\ IsCall(events, <<"start">>)
    /\ spring.lastCallId = 3
    /\ IsUnd(calls[2].props.to) /\ IsUnd(calls[2].props.from)
    /\ calls[2].reached /\ calls[2].during = 1
    /\ Fires(events, "resolve", 1) /\ Fires(events, "resolve", 2)
    /\ ~calls[2].result.cancelled /\ ~calls[2].result.noop
    /\ calls[3].stage = "merged" /\ calls[3].props.to = V2
    /\ spring.isAnimating /\ hist.ended = 0

(* --------------------------- paused values ---------------------------- *)

\* The step is a call of `start`, `pause` or `reset`.
Submitting ==
    /\ events' # <<>>
    /\ events'[1] \in {<<"start">>, <<"pause">>, <<"reset">>}

\* The elapsed times of the channels of `sv`.
Elapsed(sv) == [i \in 1..Len(sv.values) |-> sv.values[i].elapsedTime]

\* The update this step submitted would start an animation were it merged:
\* it has no delay and its `to` is not the value of the node.
WouldStart ==
    /\ IsCall(events', <<"start">>)
    /\ spring'.lastCallId = spring.lastCallId + 1
    /\ calls'[spring'.lastCallId].props.delay = 0
    /\ ~IsUnd(calls'[spring'.lastCallId].props.to)
    /\ calls'[spring'.lastCallId].props.to # CurrentValue(spring')

Handlers(sv) ==
    [onStart |-> sv.onStart, onChange |-> sv.onChange,
     onPause |-> sv.onPause, onResume |-> sv.onResume]

\* The handlers of the update `c`: for every prop it defines the update
\* itself, else the default handler (there is none).
HandlersOf(c) ==
    [onStart  |-> IF c.props.onStart THEN c.origin ELSE 0,
     onChange |-> IF c.props.onChange THEN c.origin ELSE 0,
     onPause  |-> IF c.props.onPause THEN c.origin ELSE 0,
     onResume |-> IF c.props.onResume THEN c.origin ELSE 0]

\* The update `n` is merged in the step and started the animation the
\* value has after it: its resolver is the second entry of the queue.
StartedLast(n) ==
    /\ MergedNow(n)
    /\ calls'[n].stage = "merged"
    /\ Len(spring'.onRest) >= 2
    /\ spring'.onRest[2].k = "res" /\ spring'.onRest[2].id = n

\* C23: the handlers `onStart`, `onChange`, `onPause` and `onResume` of the
\* animation change only in a step in which an update starts an animation,
\* and are then those of an update that did; an update that is merged
\* without starting an animation (a noop, a postponed, a cancelled or a
\* superseded one) leaves them as they were.
C23_HandlersOnlyOnStart ==
    [][/\ Handlers(spring') # Handlers(spring) =>
             \E n \in CallIds :
                /\ StartedLast(n)
                /\ Handlers(spring') = HandlersOf(calls'[n])
       /\ \A id \in CallIds :
             (OneMerge /\ MergedNow(id)) =>
                IF StartsAnimation(id)
                THEN Handlers(spring') = HandlersOf(calls'[id])
                ELSE Handlers(spring') = Handlers(spring)
      ]_vars

\* C23 witness: the third update defines the four handlers and was merged
\* while the animation of the second was active; it is postponed, and the
\* animation still has no handler, as the second update defined none.
C23_Witness ==
    /\ IsCall(events, <<"start">>)
    /\ spring.lastCallId = 3
    /\ calls[3].props.onStart /\ calls[3].props.onPause
    /\ calls[3].reached /\ calls[3].stage = "merged"
    /\ IsUnd(calls[3].props.to)
    /\ ~calls[2].props.onStart /\ calls[2].stage = "merged"
    /\ Handlers(spring) = [onStart |-> 0, onChange |-> 0, onPause |-> 0,
                           onResume |-> 0]
    /\ calls[1].props.onStart /\ hist.onStart[1] = 1
    /\ spring.isAnimating

(* ------------------------ immediate animations ------------------------- *)

\* C24 as stated: a frame that advances an animation whose `immediate`
\* flag is set calls no `onStart` handler, whether the animation reaches
\* its goal in it or not.
C24_ImmediateNoOnStart ==
    [][(spring.isAnimating /\ ~spring.isPaused /\ spring.immediate
        /\ IsFrame(events')) => ~FiresAny(events', "onStart")
      ]_vars

(* ----------------------------- `_lastToId` ----------------------------- *)

\* The update `c` defines `to` or `from`.
HasRange(c) == ~IsUnd(c.range.to) \/ ~IsUnd(c.range.from)

\* C25: `_lastToId` is between 0 and `_lastCallId` and never decreases; a
\* step changes it only to the callId of an update that reaches `_merge` in
\* that step, defines `to` or `from` and is no cancel; and an update that
\* defines neither and is no cancel is not cancelled when it is merged.
C25_LastToId ==
    [][/\ 0 <= spring'.lastToId
       /\ spring'.lastToId <= spring'.lastCallId
       /\ spring'.lastToId >= spring.lastToId
       /\ spring'.lastToId # spring.lastToId =>
             /\ MergedNow(spring'.lastToId)
             /\ HasRange(calls'[spring'.lastToId])
             /\ ~calls'[spring'.lastToId].props.cancel
             /\ ~calls'[spring'.lastToId].result.cancelled
       /\ \A id \in CallIds :
             (MergedNow(id) /\ ~HasRange(calls'[id])
              /\ ~calls'[id].props.cancel) =>
                ~calls'[id].result.cancelled
      ]_vars

\* C25 witness: the first update, delayed, lost the precedence to the
\* second and was cancelled when its timer expired; the third defines
\* neither `to` nor `from`, was merged after both and is not cancelled, and
\* `_lastToId` is still the callId of the second.
C25_Witness ==
    /\ IsCall(events, <<"start">>)
    /\ spring.lastCallId = 3 /\ spring.lastToId = 2
    /\ calls[1].props.delay = 1 /\ calls[1].reached
    /\ calls[1].result.cancelled /\ calls[1].seen = 2
    /\ HasRange(calls[2])
    /\ ~HasRange(calls[3]) /\ calls[3].reached /\ calls[3].seen = 2
    /\ ~calls[3].result.cancelled

(* ------------------------------ `onStart` ------------------------------ *)

\* How many calls of `onStart` the events `ev` hold.
OnStartCalls(ev) ==
    Cardinality({i \in 1..Len(ev) : ev[i][1] = "onStart"})

\* C26: a step calls `onStart` at most once, and only the handler the
\* animation stores, while the value is animating and `changed` is unset,
\* and it sets `changed`.  `changed` is cleared only in a step in which an
\* update starts an animation on a value that is not animating, or that has
\* stopped animating in that step, or with reset.  So an update that
\* restarts an animation that has changed, without reset, leaves `changed`
\* set and no `onStart` follows until the animation has ended; an update
\* that starts an animation with reset clears `changed`.
C26_OnStartOnce ==
    [][/\ OnStartCalls(events') <= 1
       /\ FiresAny(events', "onStart") =>
             /\ spring.isAnimating
             /\ ~spring.changed /\ spring'.changed
             /\ spring.onStart # 0
             /\ Fires(events', "onStart", spring.onStart)
       /\ (spring.changed /\ ~spring'.changed) =>
             \E n \in CallIds :
                /\ StartedLast(n)
                /\ \/ ~spring.isAnimating
                   \/ hist'.ended > hist.ended
                   \/ IsReset(calls'[n])
       /\ \A id \in CallIds :
             (OneMerge /\ StartsAnimation(id) /\ spring.isAnimating) =>
                IF IsReset(calls'[id])
                THEN ~spring'.changed
                ELSE /\ spring'.changed = spring.changed
                     /\ hist'.ended = hist.ended
      ]_vars

\* C26 witness: the second update restarted the animation of the first
\* with reset after it had changed; the animation has never ended, and
\* this frame called `onStart` for the second time.
C26_Witness ==
    /\ IsFrame(events)
    /\ Fires(events, "onStart", 2)
    /\ hist.onStart[1] = 1 /\ hist.onStart[2] = 1
    /\ calls[2].props.from = V0 /\ calls[2].during = 1
    /\ hist.ended = 0
    /\ spring.isAnimating /\ spring.changed

====
